---- MODULE Spec2Model ----
(***************************************************************************)
(* ZAgent: the per-turn conversation state (zagent/core/state.py), the     *)
(* streaming client (zagent/core/client.py), the tool registry             *)
(* (zagent/tools/__init__.py) and the orchestration loop (zagent/cli.py).  *)
(*                                                                         *)
(* Text is a sequence of tokens: a token is a character or one tag         *)
(* delimiter ("<echo>", "</echo>"), so "+=" on strings is \o on sequences. *)
(* Python's None is the string "None" for text-like fields and the number  *)
(* 0 for message identifiers (uuids are the numbers 1, 2, 3, ...).         *)
(***************************************************************************)
EXTENDS Integers, Sequences, FiniteSets, TLC

VARIABLES
    state,              \* the ChatState object of run()
    uuid_next,          \* the next value of ChatState._uuid_factory
    pc,                 \* position of run(): start, open_stream, stream,
                        \*   toolcheck, input, exited, crashed
    in_main_loop,       \* TRUE once run() is inside "while True: try:"
    prompt,             \* the prompt of the turn that is running
    max_iterations,     \* tools_config.get("max_iterations", 3)
    i,                  \* the loop variable of the tool loop
    events,             \* the events stream_completion yielded in this turn
    completion_payload, \* the payload _stream_current_turn built last
    new_chat_payload,   \* the payload run() built for create_chat
    registry,           \* the global ToolRegistry
    exc,                \* the exception raised last: the one that left run()
                        \*   (pc = "crashed"), or one caught or swallowed
    executions,         \* tool.execute calls since the last human prompt
    turns,              \* _stream_current_turn calls since the last human prompt
    api_op,             \* SpecAPI: the ChatState method called last
    api_ret,            \* SpecAPI: what that call returned or raised
    last_tool,          \* the last call of execute_if_applicable: its message,
                        \*   the tool and request it chose, what execute did
                        \*   (forgotten when the next request opens)
    report_file,        \* report.md in the working directory
    frames,             \* SpecFrames: the lines resp.iter_lines() will give
    frame_pos,          \* SpecFrames: how many of them the generator has read
    yielded,            \* SpecFrames: the events the generator has yielded
    first_registered,   \* SpecRegistry: the names in the order in which each
                        \*   was registered for the first time
    registered_disabled \* SpecRegistry: the names whose last register call
                        \*   had enabled=False, with no enable call since

vars == <<state, uuid_next, pc, in_main_loop, prompt, max_iterations, i, events,
          completion_payload, new_chat_payload, registry, exc, executions, turns,
          api_op, api_ret, last_tool, report_file, frames, frame_pos, yielded,
          first_registered, registered_disabled>>

----------------------------------------------------------------------------
(* Bounds *)

\* begin_turn calls in one run
MaxTurns == 4
\* events one stream yields
MaxEvents == 2
\* the largest max_iterations a chat_config.json of the model sets
MaxIterationsCfg == 2

None == "None"
NoId == 0

----------------------------------------------------------------------------
(* zagent/core/state.py *)

\* cli.py 25-33, 77-81: the system prompt run() gives the state always ends
\* with the hint about the tools
TOOL_SYSTEM_HINT == "<tool system hint>"

\* ChatState(...) as _build_state constructs it; show is runtime.show_thinking
ChatState(show) ==
    [ chat_id |-> None,
      system_prompt |-> TOOL_SYSTEM_HINT,
      runtime_show_thinking |-> show,
      current_user_message_id |-> NoId,
      current_user_message_parent_id |-> NoId,
      current_assistant_message_id |-> NoId,
      current_assistant_content |-> << >> ]

\* mutant of begin_turn: the turn also starts a new conversation
begin_turn_new_chat(s, u) ==
    [s EXCEPT !.chat_id = None,
              !.current_user_message_id = u,
              !.current_assistant_message_id = u + 1,
              !.current_assistant_content = << >>]

\* mutant of begin_turn: the text of the turn before is kept
begin_turn_keeps_content(s, u) ==
    [s EXCEPT !.current_user_message_id = u,
              !.current_assistant_message_id = u + 1]

\* mutant of begin_turn: one value of the factory is used for both ids
begin_turn_one_id(s, u) ==
    [s EXCEPT !.current_user_message_id = u,
              !.current_assistant_message_id = u,
              !.current_assistant_content = << >>]

\* begin_turn: u is the first of the two values the uuid factory returns
begin_turn(s, u) ==
    [s EXCEPT !.current_user_message_id = u,
              !.current_assistant_message_id = u + 1,
              !.current_assistant_content = << >>]

apply_assistant_delta(s, delta) ==
    [s EXCEPT !.current_assistant_content = @ \o delta]

\* mutant of finish_turn: the assistant id is moved, not copied
finish_turn_moves(s) ==
    [s EXCEPT !.current_user_message_parent_id = s.current_assistant_message_id,
              !.current_assistant_message_id = NoId]

\* mutant of finish_turn: the parent link is left as it was
finish_turn_skipped(s) == s

finish_turn(s) ==
    [s EXCEPT !.current_user_message_parent_id = s.current_assistant_message_id]

\* "not x" for an Optional[str] chat id / an Optional message id
FalsyStr(x) == x = None \/ x = ""
FalsyId(x) == x = NoId

\* a dict is the set of its items
Items(keys, v) == { [key |-> k, value |-> v] : k \in keys }

\* state.py 55-62
system_params(s) ==
    IF FalsyStr(s.system_prompt)
    THEN { }
    ELSE Items({"system", "system_prompt", "assistant_system_prompt"}, s.system_prompt)

\* _system_extra without the test of line 65
system_extra_always(s) ==
    Items({"system", "system_prompt", "assistant_system_prompt", "instructions"},
          s.system_prompt)

\* state.py 64-72
system_extra(s) ==
    IF FalsyStr(s.system_prompt)
    THEN { }
    ELSE Items({"system", "system_prompt", "assistant_system_prompt", "instructions"},
               s.system_prompt)

\* state.py 135-146: the template variables; the clock values are "<now>"
variables(s) ==
    { [key |-> "{{USER_NAME}}", value |-> "User"],
      [key |-> "{{USER_LOCATION}}", value |-> "Unknown"],
      [key |-> "{{CURRENT_DATETIME}}", value |-> "<now>"],
      [key |-> "{{CURRENT_DATE}}", value |-> "<now>"],
      [key |-> "{{CURRENT_TIME}}", value |-> "<now>"],
      [key |-> "{{CURRENT_WEEKDAY}}", value |-> "<now>"],
      [key |-> "{{CURRENT_TIMEZONE}}", value |-> "UTC"],
      [key |-> "{{USER_LANGUAGE}}", value |-> "en-US"] }
    \cup (IF FalsyStr(s.system_prompt)
          THEN { }
          ELSE Items({"{{SYSTEM_PROMPT}}"}, s.system_prompt))

NoPayload ==
    [ chat_id |-> None, id |-> NoId, current_user_message_id |-> NoId,
      current_user_message_parent_id |-> NoId, messages |-> << >>,
      stream |-> FALSE, params |-> { }, extra |-> { }, variables |-> { } ]

\* mutant of build_completion_payload: the check of line 122 is missing
build_completion_payload_unchecked(s, p) ==
    IF s.chat_id = None \/ s.chat_id = ""
    THEN [raised |-> "RuntimeError: chat_id is required before completion",
          value |-> NoPayload]
    ELSE [raised |-> None,
          value |-> [ chat_id |-> s.chat_id,
                      id |-> s.current_assistant_message_id,
                      current_user_message_id |-> s.current_user_message_id,
                      current_user_message_parent_id |-> s.current_user_message_parent_id,
                      messages |-> << [role |-> "user", content |-> p] >>,
                      stream |-> TRUE,
                      params |-> system_params(s),
                      extra |-> system_extra(s),
                      variables |-> variables(s) ]]

\* build_completion_payload: the identifiers and the prompt of the payload
build_completion_payload(s, p) ==
    IF FalsyStr(s.chat_id)
    THEN [raised |-> "RuntimeError: chat_id is required before completion",
          value |-> NoPayload]
    ELSE IF FalsyId(s.current_user_message_id) \/ FalsyId(s.current_assistant_message_id)
    THEN [raised |-> "RuntimeError: begin_turn must be called before build_completion_payload",
          value |-> NoPayload]
    ELSE [raised |-> None,
          value |-> [ chat_id |-> s.chat_id,
                      id |-> s.current_assistant_message_id,
                      current_user_message_id |-> s.current_user_message_id,
                      current_user_message_parent_id |-> s.current_user_message_parent_id,
                      messages |-> << [role |-> "user", content |-> p] >>,
                      stream |-> TRUE,
                      params |-> system_params(s),
                      extra |-> system_extra(s),
                      variables |-> variables(s) ]]

NoNewChat == [ messages |-> { }, currentId |-> NoId, params |-> { }, extra |-> { } ]

\* mutant of build_new_chat_payload: the message is keyed by the assistant id
build_new_chat_payload_assistant_key(s, p) ==
    IF s.current_user_message_id = NoId
    THEN [raised |-> "RuntimeError: begin_turn must be called before build_new_chat_payload",
          value |-> NoNewChat]
    ELSE [raised |-> None,
          value |-> [ messages |-> { [ key |-> s.current_assistant_message_id,
                                       id |-> s.current_user_message_id,
                                       parentId |-> NoId,
                                       role |-> "user",
                                       content |-> p ] },
                      currentId |-> s.current_user_message_id,
                      params |-> system_params(s),
                      extra |-> system_extra(s) ]]

\* build_new_chat_payload: chat.history of the payload; messages is the set of
\* the entries of the dict, each with the key it is stored under
build_new_chat_payload(s, p) ==
    IF FalsyId(s.current_user_message_id)
    THEN [raised |-> "RuntimeError: begin_turn must be called before build_new_chat_payload",
          value |-> NoNewChat]
    ELSE [raised |-> None,
          value |-> [ messages |-> { [ key |-> s.current_user_message_id,
                                       id |-> s.current_user_message_id,
                                       parentId |-> NoId,
                                       role |-> "user",
                                       content |-> p ] },
                      currentId |-> s.current_user_message_id,
                      params |-> system_params(s),
                      extra |-> system_extra(s) ]]

----------------------------------------------------------------------------
(* zagent/tools: the registry and the tools *)

\* the name property of the tool classes, in the order auto_discover registers
\* them (pkgutil.iter_modules lists the modules of the package sorted by name)
ToolNames == << "echo", "file_read", "file_write", "report", "shell" >>

\* the opening and closing delimiter of each tool's trigger pattern
OpenTag(name) ==
    CASE name = "echo" -> "<echo>"
      [] name = "file_read" -> "<read_file>"
      [] name = "file_write" -> "<write_file path=\"p\">"
      [] name = "report" -> "<report title=\"t\">"
      [] name = "shell" -> "<shell>"

CloseTag(name) ==
    CASE name = "echo" -> "</echo>"
      [] name = "file_read" -> "</read_file>"
      [] name = "file_write" -> "</write_file>"
      [] name = "report" -> "</report>"
      [] name = "shell" -> "</shell>"

\* re.search(open(.*?)close, message, DOTALL): the leftmost opening delimiter
\* that a closing one follows, and the first closing one after it; <<0, 0>>
\* when there is no match
TagSearch(message, open, close) ==
    LET starts == { a \in 1..Len(message) :
                      /\ message[a] = open
                      /\ \E b \in (a + 1)..Len(message) : message[b] = close }
    IN IF starts = { } THEN << 0, 0 >>
       ELSE LET a == CHOOSE x \in starts : \A y \in starts : x <= y
                b == CHOOSE x \in (a + 1)..Len(message) :
                        /\ message[x] = close
                        /\ \A y \in (a + 1)..Len(message) : message[y] = close => x <= y
            IN << a, b >>

\* str.strip(): whitespace tokens dropped at both ends
RECURSIVE Strip(_)
Strip(text) ==
    IF text = << >> THEN << >>
    ELSE IF Head(text) = " " THEN Strip(Tail(text))
    ELSE IF text[Len(text)] = " " THEN Strip(SubSeq(text, 1, Len(text) - 1))
    ELSE text

\* the two patterns of ShellTool: the tag and the fenced shell block, whose
\* three-backquote fence is written <fence> here (the optional whitespace of
\* the fence pattern is the strip of the group)
ShellFenceOpen == "<fence>shell"
ShellFenceClose == "<fence>"

\* BaseTool.can_handle of the tool called name
can_handle(name, message) ==
    \/ TagSearch(message, OpenTag(name), CloseTag(name)) # << 0, 0 >>
    \/ /\ name = "shell"
       /\ TagSearch(message, ShellFenceOpen, ShellFenceClose) # << 0, 0 >>

Absent == [some |-> FALSE, text |-> << >>]
Some(text) == [some |-> TRUE, text |-> text]

\* "cmd or None" of ShellTool.extract_request
OrNone(text) == IF text = << >> THEN Absent ELSE Some(text)

\* the title or path attribute the opening delimiter of the model carries
TagAttribute(name) ==
    CASE name = "file_write" -> << "p" >>
      [] name = "report" -> << "t" >>

\* file_write_tool.py 38-40: the request string made of the path attribute
\* and the body of a write_file tag
write_request(path, content) == Strip(path) \o << "|" >> \o content

\* mutant of extract_request: the extractor consumes the match, a call after
\* another call of extract_request finds nothing
extract_request_consuming(name, message) ==
    IF api_op = "extract_request" THEN Absent
    ELSE LET m == TagSearch(message, OpenTag(name), CloseTag(name))
         IN IF m = << 0, 0 >> THEN Absent
            ELSE Some(Strip(SubSeq(message, m[1] + 1, m[2] - 1)))

\* BaseTool.extract_request of the tool called name: the request, or None
\* (a request is Absent for None, Some(text) for a string)
extract_request(name, message) ==
    LET m == TagSearch(message, OpenTag(name), CloseTag(name))
        group == SubSeq(message, m[1] + 1, m[2] - 1)
        f == TagSearch(message, ShellFenceOpen, ShellFenceClose)
    IN CASE name = "echo" ->
              IF m = << 0, 0 >> THEN Absent ELSE Some(Strip(group))
         [] name = "file_read" ->
              IF m = << 0, 0 >> THEN Absent ELSE Some(Strip(group))
         [] name = "file_write" ->
              IF m = << 0, 0 >> THEN Absent
              ELSE Some(write_request(TagAttribute(name), group))
         [] name = "report" ->
              IF m = << 0, 0 >> THEN Absent
              ELSE Some(Strip(TagAttribute(name)) \o << "|" >> \o Strip(group))
         [] name = "shell" ->
              IF m # << 0, 0 >> THEN OrNone(Strip(group))
              ELSE IF f # << 0, 0 >>
                   THEN OrNone(Strip(SubSeq(message, f[1] + 1, f[2] - 1)))
                   ELSE Absent

\* ToolResult.format with no metadata
ToolResult_format(tool_name, request, success, output, error) ==
    << "TOOL_RESULT ", tool_name, "\n", "request: " >> \o request
    \o << "\n", "success: ", IF success THEN "yes" ELSE "no" >>
    \o (IF output # << >> THEN << "\n", "output:\n" >> \o output ELSE << >>)
    \o (IF error # << >> THEN << "\n", "error:\n" >> \o error ELSE << >>)

\* ToolResult.format with metadata: a sequence of << key, value >> pairs
RECURSIVE MetadataLines(_)
MetadataLines(metadata) ==
    IF metadata = << >> THEN << >>
    ELSE << "\n", Head(metadata)[1], ": " >> \o Head(metadata)[2]
         \o MetadataLines(Tail(metadata))

\* mutant of ToolResult_format_with: the metadata is not rendered
ToolResult_format_no_metadata(tool_name, request, success, output, error, metadata) ==
    ToolResult_format(tool_name, request, success, output, error)

ToolResult_format_with(tool_name, request, success, output, error, metadata) ==
    ToolResult_format(tool_name, request, success, output, error)
    \o MetadataLines(metadata)

\* EchoTool.execute
echo_execute(request) ==
    ToolResult_format("echo", request, TRUE, << "ECHO: " >> \o request, << >>)

\* text.split("|", 1): << before, after >>, or << text >> without a "|"
Split1(text) ==
    LET bars == { k \in 1..Len(text) : text[k] = "|" }
    IN IF bars = { } THEN << text >>
       ELSE LET k == CHOOSE x \in bars : \A y \in bars : x <= y
            IN << SubSeq(text, 1, k - 1), SubSeq(text, k + 1, Len(text)) >>

\* what one tool execution returns: raised is the exception that leaves
\* execute (None when it returns), result the rendered text, asked whether
\* input() was called, ran whether the command or the file operation ran,
\* file the report document afterwards
Outcome(raised, result, success, asked, ran, file) ==
    [raised |-> raised, result |-> result, success |-> success,
     asked |-> asked, ran |-> ran, file |-> file]

----------------------------------------------------------------------------
(* zagent/tools/report_tool.py *)

Digits == << "0", "1", "2", "3", "4", "5", "6", "7", "8", "9" >>
IsDigit(t) == \E d \in 1..Len(Digits) : Digits[d] = t
DigitValue(t) == (CHOOSE d \in 1..Len(Digits) : Digits[d] = t) - 1

\* int(s) for a string of digits
RECURSIVE ParseInt(_)
ParseInt(ds) ==
    IF ds = << >> THEN 0
    ELSE 10 * ParseInt(SubSeq(ds, 1, Len(ds) - 1)) + DigitValue(ds[Len(ds)])

\* str(n)
RECURSIVE Decimal(_)
Decimal(n) ==
    IF n < 10 THEN << Digits[n + 1] >>
    ELSE Decimal(n \div 10) \o << Digits[(n % 10) + 1] >>

\* f"{n:03d}"
Format03(n) ==
    LET d == Decimal(n)
    IN IF Len(d) >= 3 THEN d
       ELSE [k \in 1..(3 - Len(d)) |-> "0"] \o d

\* the (\d+) group of a match that starts at position k: the longest run of digits
RECURSIVE DigitRun(_, _)
DigitRun(text, k) ==
    IF k > Len(text) THEN << >>
    ELSE IF ~IsDigit(text[k]) THEN << >>
    ELSE << text[k] >> \o DigitRun(text, k + 1)

\* re.findall(r"### ID: (\d+)", content), as the set of int(i)
FindIds(content) ==
    { ParseInt(DigitRun(content, k + 1)) :
        k \in { j \in 1..Len(content) :
                  content[j] = "### ID: " /\ DigitRun(content, j + 1) # << >> } }

\* report.md: exists is os.path.exists, content the text of the file
NoFile == [exists |-> FALSE, content |-> << >>]

\* mutant of _get_next_id: the ids in the file are not read
get_next_id_first(file) == << "0", "0", "1" >>

\* ReportTool._get_next_id
get_next_id(file) ==
    IF ~file.exists THEN << "0", "0", "1" >>
    ELSE LET ids == FindIds(file.content)
         IN IF ids = { } THEN << "0", "0", "1" >>
            ELSE Format03((CHOOSE m \in ids : \A x \in ids : x <= m) + 1)

ReportHeader == << "# ZAgent Security Report\n\n" >>

\* the report_entry string of ReportTool.execute
report_entry(next_id, title, content) ==
    << "\n---\n", "### ID: " >> \o next_id \o << "\n", "**Title**: " >> \o title
    \o << "\n", "**Date**: ", "<now>", "\n\n" >> \o content \o << "\n" >>

\* ReportTool.execute: io is "ok", or "exception" when reading or opening
\* report.md raises
report_execute(request, io, file) ==
    LET parts == Split1(request)
    IN IF Len(parts) < 2
       THEN Outcome(None,
                    ToolResult_format("report", request, FALSE, << >>,
                                      << "Invalid report format" >>),
                    FALSE, FALSE, FALSE, file)
       ELSE IF io # "ok"
       THEN Outcome(None,
                    ToolResult_format("report", parts[1], FALSE, << >>, << "<str(e)>" >>),
                    FALSE, FALSE, FALSE, file)
       ELSE LET next_id == get_next_id(file)
                entry == report_entry(next_id, parts[1], parts[2])
            IN Outcome(None,
                       ToolResult_format_with("report", parts[1], TRUE,
                           << "Finding " >> \o next_id
                             \o << " successfully added to ", "report.md" >>,
                           << >>,
                           << << "id", next_id >>, << "title", parts[1] >> >>),
                       TRUE, FALSE, TRUE,
                       [exists |-> TRUE,
                        content |-> IF file.exists THEN file.content \o entry
                                    ELSE ReportHeader \o entry])

----------------------------------------------------------------------------
(* zagent/tools/shell_tool.py, file_read_tool.py, file_write_tool.py *)

\* choice.strip().lower() in {"y", "yes"}
Accepts(choice) == choice \in { "y", "yes" }

\* ShellTool.execute. confirm is what input() returns, or "EOFError" when it
\* raises; run is what subprocess.run does: "exit0", "exit1", "timeout",
\* "exception"
shell_execute(request, auto_approve, use_docker, confirm, run, file) ==
    LET mode == IF use_docker THEN "docker" ELSE "local"
        asked == ~auto_approve
    IN IF asked /\ confirm = "EOFError"
       THEN Outcome("EOFError", << >>, FALSE, TRUE, FALSE, file)
       ELSE IF asked /\ ~Accepts(confirm)
       THEN Outcome(None,
                    ToolResult_format("shell", request, FALSE, << >>,
                                      << "user rejected command" >>),
                    FALSE, TRUE, FALSE, file)
       ELSE CASE run = "exit0" ->
                   Outcome(None,
                           ToolResult_format_with("shell", request, TRUE, << "<stdout>" >>,
                               << >>,
                               << << "exit_code", << "0" >> >>,
                                  << "execution_mode", << mode >> >> >>),
                           TRUE, asked, TRUE, file)
              [] run = "exit1" ->
                   Outcome(None,
                           ToolResult_format_with("shell", request, FALSE, << "(empty)" >>,
                               << "<stderr>" >>,
                               << << "exit_code", << "1" >> >>,
                                  << "execution_mode", << mode >> >> >>),
                           FALSE, asked, TRUE, file)
              [] run = "timeout" ->
                   Outcome(None,
                           ToolResult_format("shell", request, FALSE, << >>,
                               << "Command timed out after ", "<timeout>", " seconds" >>),
                           FALSE, asked, TRUE, file)
              [] run = "exception" ->
                   Outcome(None,
                           ToolResult_format("shell", request, FALSE, << >>,
                                             << "<str(exc)>" >>),
                           FALSE, asked, TRUE, file)

\* FileReadTool.execute: io is "ok" or "exception"
file_read_execute(request, use_docker, io, file) ==
    LET mode == IF use_docker THEN "docker" ELSE "local"
    IN IF io = "ok"
       THEN Outcome(None,
                    ToolResult_format_with("file_read", request, TRUE, << "<content>" >>,
                        << >>, << << "mode", << mode >> >>, << "path", request >> >>),
                    TRUE, FALSE, TRUE, file)
       ELSE Outcome(None,
                    ToolResult_format("file_read", request, FALSE, << >>, << "<str(e)>" >>),
                    FALSE, FALSE, TRUE, file)

\* FileWriteTool.execute: io is "ok" or "exception"
file_write_execute(request, use_docker, io, file) ==
    LET mode == IF use_docker THEN "docker" ELSE "local"
        Mode == IF use_docker THEN "Docker" ELSE "Local"
        parts == Split1(request)
    IN IF Len(parts) < 2
       THEN Outcome(None,
                    ToolResult_format("file_write", request, FALSE, << >>,
                                      << "Invalid write_file request format." >>),
                    FALSE, FALSE, FALSE, file)
       ELSE IF io = "ok"
       THEN Outcome(None,
                    ToolResult_format_with("file_write",
                        << "Write to " >> \o parts[1], TRUE,
                        << "Successfully wrote ", "<len(content)>", " bytes to " >>
                          \o parts[1] \o << " (", Mode, ")" >>,
                        << >>, << << "mode", << mode >> >>, << "path", parts[1] >> >>),
                    TRUE, FALSE, TRUE, file)
       ELSE Outcome(None,
                    ToolResult_format("file_write", parts[1], FALSE, << >>,
                                      << "<str(e)>" >>),
                    FALSE, FALSE, TRUE, file)

----------------------------------------------------------------------------
(* zagent/tools/__init__.py: the registry *)

\* the registry after _setup_tools with every tool discovered: tools is the
\* key order of _tools, enabled_tools is _enabled_tools; auto_approve and
\* use_docker are the attributes of the ShellTool instance
ToolRegistry(enabled) ==
    [ tools |-> ToolNames, enabled_tools |-> enabled,
      auto_approve |-> FALSE, use_docker |-> FALSE ]

\* ToolRegistry.__init__
EmptyRegistry == [ToolRegistry({ }) EXCEPT !.tools = << >>]

InTools(reg, name) == \E k \in 1..Len(reg.tools) : reg.tools[k] = name

\* mutant of register: a registered name moves to the end of the order
register_moves_to_end(reg, name, enabled) ==
    [reg EXCEPT !.tools = SelectSeq(reg.tools, LAMBDA n : n # name) \o << name >>,
                !.enabled_tools = IF enabled THEN @ \cup { name } ELSE @]

\* ToolRegistry.register: the key of a dict keeps its place when it is set again
register(reg, name, enabled) ==
    [reg EXCEPT !.tools = IF InTools(reg, name) THEN @ ELSE Append(@, name),
                !.enabled_tools = IF enabled THEN @ \cup { name } ELSE @]

\* mutant of enable: the name is added whether or not a tool has it
enable_any(reg, name) == [reg EXCEPT !.enabled_tools = @ \cup { name }]

\* ToolRegistry.enable
enable(reg, name) ==
    IF InTools(reg, name)
    THEN [reg EXCEPT !.enabled_tools = @ \cup { name }]
    ELSE reg

\* mutant of disable: the tool is unregistered
disable_unregisters(reg, name) ==
    [reg EXCEPT !.tools = SelectSeq(reg.tools, LAMBDA n : n # name),
                !.enabled_tools = @ \ { name }]

\* ToolRegistry.disable
disable(reg, name) == [reg EXCEPT !.enabled_tools = @ \ { name }]

\* ToolRegistry.get_tool: the name of the tool, or None
get_tool(reg, name) == IF InTools(reg, name) THEN name ELSE None

\* mutant of get_enabled_tools: every registered name, enabled or not
get_enabled_tools_all(reg) == reg.tools

\* get_enabled_tools: the registered names that are enabled, in dict order
get_enabled_tools(reg) ==
    SelectSeq(reg.tools, LAMBDA n : n \in reg.enabled_tools)

\* find_tool_for_message: the first enabled tool that can handle, or None
find_tool_for_message(reg, message) ==
    LET en == get_enabled_tools(reg)
        hits == { k \in 1..Len(en) : can_handle(en[k], message) }
    IN IF hits = { } THEN None
       ELSE en[CHOOSE k \in hits : \A j \in hits : k <= j]

\* what the outside world does during one tool.execute: confirm is the answer
\* to the confirmation prompt, run the fate of the command or file operation
ToolEnvs(reg, tool) ==
    CASE tool = "echo" -> { [confirm |-> "-", run |-> "ok"] }
      [] tool = "shell" ->
           IF reg.auto_approve
           THEN { [confirm |-> "-", run |-> r] :
                    r \in { "exit0", "exit1", "timeout", "exception" } }
           ELSE { [confirm |-> "y", run |-> r] :
                    r \in { "exit0", "exit1", "timeout", "exception" } }
                \cup { [confirm |-> "n", run |-> "-"],
                       [confirm |-> "EOFError", run |-> "-"] }
      [] OTHER -> { [confirm |-> "-", run |-> r] : r \in { "ok", "exception" } }

\* tool.execute(request, context)
tool_execute(reg, tool, request, env, file) ==
    CASE tool = "echo" -> Outcome(None, echo_execute(request), TRUE, FALSE, TRUE, file)
      [] tool = "shell" ->
           shell_execute(request, reg.auto_approve, reg.use_docker, env.confirm, env.run, file)
      [] tool = "file_read" -> file_read_execute(request, reg.use_docker, env.run, file)
      [] tool = "file_write" -> file_write_execute(request, reg.use_docker, env.run, file)
      [] tool = "report" -> report_execute(request, env.run, file)

\* no tool ran
NotExecuted(file) ==
    [executed |-> FALSE, tool |-> None, request |-> << >>]
      @@ Outcome(None, << >>, FALSE, FALSE, FALSE, file)

\* the environment of a call in which no execute runs
NoEnv == [confirm |-> "-", run |-> "-"]

\* before the first call of execute_if_applicable
NoCall ==
    NotExecuted(NoFile)
      @@ [called |-> FALSE, message |-> << >>, env |-> NoEnv, before |-> NoFile]

\* the record of a call of execute_if_applicable on message, in environment
\* env and with report.md as in before, that ended as r
Called(message, env, before, r) ==
    r @@ [called |-> TRUE, message |-> message, env |-> env, before |-> before]

\* mutant of execute_request: an empty request is executed too
execute_request_any(request) == request.some

\* "if not request: return False, None" negated: execute is called
execute_request(request) == request.some /\ request.text # << >>

\* mutant of applicable_tool: the first enabled tool that can handle the
\* message and gives a request that is executed
applicable_tool_any(reg, message) ==
    LET en == get_enabled_tools(reg)
        hits == { k \in 1..Len(en) :
                    /\ can_handle(en[k], message)
                    /\ execute_request(extract_request(en[k], message)) }
    IN IF hits = { } THEN None
       ELSE en[CHOOSE k \in hits : \A j \in hits : k <= j]

\* lines 81-87 of execute_if_applicable: the tool whose execute is called, or None
applicable_tool(reg, message) ==
    LET tool == find_tool_for_message(reg, message)
    IN IF tool = None THEN None
       ELSE IF execute_request(extract_request(tool, message)) THEN tool ELSE None

\* execute_if_applicable: executed and result are the tuple it returns; when
\* raised is not None the exception left it instead
execute_if_applicable(reg, message, env, file) ==
    LET tool == applicable_tool(reg, message)
    IN IF tool = None THEN NotExecuted(file)
       ELSE LET request == extract_request(tool, message).text
                out == tool_execute(reg, tool, request, env, file)
            IN [executed |-> out.raised = None, tool |-> tool, request |-> request]
                 @@ out

----------------------------------------------------------------------------
(* zagent/core/client.py: what the server can send *)

\* the ids create_chat can return (data["id"], truthy)
ChatIds == { "chat-1", "chat-2" }

\* what the server does with the request of create_chat: status is "ok" for
\* a 2xx answer with a JSON object, whose "id" is id (None when the key is
\* missing or null)
Responses ==
    { [status |-> "ok", id |-> cid] : cid \in ChatIds \cup { "", None } }
    \cup { [status |-> st, id |-> None] :
             st \in { "connection_error", "http_error", "not_json" } }

\* mutant of create_chat: the id of the response is returned unchecked
create_chat_unchecked(resp) ==
    CASE resp.status = "connection_error" ->
           [raised |-> "create_chat: requests.ConnectionError", value |-> None]
      [] resp.status = "http_error" ->
           [raised |-> "create_chat: requests.HTTPError", value |-> None]
      [] resp.status = "not_json" ->
           [raised |-> "create_chat: requests.JSONDecodeError", value |-> None]
      [] resp.status = "ok" -> [raised |-> None, value |-> resp.id]

\* ZAIClient.create_chat: the id it returns, or the exception it raises
create_chat(resp) ==
    CASE resp.status = "connection_error" ->
           [raised |-> "create_chat: requests.ConnectionError", value |-> None]
      [] resp.status = "http_error" ->
           [raised |-> "create_chat: requests.HTTPError", value |-> None]
      [] resp.status = "not_json" ->
           [raised |-> "create_chat: requests.JSONDecodeError", value |-> None]
      [] resp.status = "ok" ->
           IF FalsyStr(resp.id)
           THEN [raised |-> "create_chat: RuntimeError: create_chat response missing id",
                 value |-> None]
           ELSE [raised |-> None, value |-> resp.id]

\* decoded frames: type is event["type"]; phase, delta and done are
\* data["phase"], data["delta_content"] and data["done"]. phase None is a
\* missing key; delta << >> is a missing, null or empty delta_content;
\* done FALSE is a missing key or any value that is not True
Events ==
    { [type |-> "chat:completion", phase |-> "answer", delta |-> << "a" >>, done |-> FALSE],
      [type |-> "chat:completion", phase |-> None,
         delta |-> << "<echo>", "x", "</echo>" >>, done |-> FALSE],
      [type |-> "chat:completion", phase |-> "thinking", delta |-> << "t" >>, done |-> FALSE],
      [type |-> "chat:completion", phase |-> "done", delta |-> << >>, done |-> TRUE],
      [type |-> "chat:completion", phase |-> "answer", delta |-> << "b" >>, done |-> TRUE],
      [type |-> "chat:other", phase |-> "answer", delta |-> << "c" >>, done |-> FALSE] }

\* the exceptions session.post and raise_for_status raise before the first
\* frame is read (client.py 145-153, outside the try of line 155)
OpenErrors == { "requests.ConnectionError", "requests.HTTPError" }

\* the first prompt and the prompts input() returns
HumanPrompts == { << "h", "i" >> }

----------------------------------------------------------------------------
(* zagent/cli.py *)

\* the body of the for loop of _stream_current_turn for one event
process_event(s, e) ==
    IF e.type # "chat:completion" THEN s
    ELSE IF e.delta = << >> THEN s
    ELSE LET phase == IF e.phase = None THEN "answer" ELSE e.phase
             s1 == IF phase = "thinking" /\ s.runtime_show_thinking
                   THEN s
                   ELSE apply_assistant_delta(s, e.delta)
         IN IF e.phase = "done" \/ e.done THEN finish_turn(s1) ELSE s1

\* mutant of LoopContinues: one iteration too many
LoopContinues_inclusive(k, n) == k <= n

\* "for i in range(max_iterations)": whether iteration number k runs
LoopContinues(k, n) == k < n

\* the uuid factory can serve one more begin_turn
CanBegin == uuid_next + 1 <= 2 * MaxTurns

\* the registries _setup_tools leaves: every tool enabled and the shell tool
\* asking for confirmation (the defaults), or tools.enabled = [shell,
\* file_read] with tools.shell.auto_approve
ToolConfigs ==
    { ToolRegistry({ ToolNames[k] : k \in 1..Len(ToolNames) }),
      [ToolRegistry({ "shell", "file_read" }) EXCEPT !.auto_approve = TRUE] }

Init ==
    /\ state \in { ChatState(show) : show \in BOOLEAN }
    /\ uuid_next = 1
    /\ pc = "start"
    /\ in_main_loop = FALSE
    /\ prompt \in HumanPrompts
    /\ max_iterations \in 0..MaxIterationsCfg
    /\ i = 0
    /\ events = << >>
    /\ completion_payload = NoPayload
    /\ new_chat_payload = NoNewChat
    /\ registry \in ToolConfigs
    /\ exc = None
    /\ executions = 0
    /\ turns = 0
    /\ api_op = None
    /\ api_ret = None
    /\ last_tool = NoCall
    /\ report_file = NoFile
    /\ frames = << >>
    /\ frame_pos = 0
    /\ yielded = << >>
    /\ first_registered = << >>
    /\ registered_disabled = { }

\* run() 251-255: begin_turn, build_new_chat_payload, create_chat returns an id
CreateChatOk ==
    /\ pc = "start"
    /\ LET s1 == begin_turn(state, uuid_next)
           r == build_new_chat_payload(s1, prompt)
       IN IF r.raised # None
          THEN /\ state' = s1
               /\ pc' = "crashed"
               /\ exc' = r.raised
               /\ UNCHANGED new_chat_payload
          ELSE /\ new_chat_payload' = r.value
               /\ \E resp \in Responses :
                    /\ create_chat(resp).raised = None
                    /\ state' = [s1 EXCEPT !.chat_id = create_chat(resp).value]
               /\ pc' = "open_stream"
               /\ UNCHANGED exc
    /\ uuid_next' = uuid_next + 2
    /\ UNCHANGED << in_main_loop, prompt, max_iterations, i, events, completion_payload,
                    registry, executions, turns, api_op, api_ret, last_tool, report_file,
                    frames, frame_pos, yielded, first_registered,
                    registered_disabled >>

\* run() 251-254: create_chat raises (transport error, or no id in the
\* response); nothing catches it and state.chat_id is not assigned
CreateChatFail ==
    /\ pc = "start"
    /\ LET s1 == begin_turn(state, uuid_next)
           r == build_new_chat_payload(s1, prompt)
       IN /\ state' = s1
          /\ new_chat_payload' = r.value
          /\ \E resp \in Responses :
               /\ create_chat(resp).raised # None
               /\ exc' = create_chat(resp).raised
    /\ pc' = "crashed"
    /\ uuid_next' = uuid_next + 2
    /\ UNCHANGED << in_main_loop, prompt, max_iterations, i, events, completion_payload,
                    registry, executions, turns, api_op, api_ret, last_tool, report_file,
                    frames, frame_pos, yielded, first_registered,
                    registered_disabled >>

\* _stream_current_turn 145-146: the payload is built and the request opens
OpenStreamOk ==
    /\ pc = "open_stream"
    /\ LET r == build_completion_payload(state, prompt)
       IN IF r.raised # None
          THEN /\ pc' = "crashed"
               /\ exc' = r.raised
               /\ UNCHANGED << completion_payload, events >>
          ELSE /\ completion_payload' = r.value
               /\ events' = << >>
               /\ pc' = "stream"
               /\ UNCHANGED exc
    /\ turns' = turns + 1
    /\ last_tool' = NoCall
    /\ UNCHANGED << state, uuid_next, in_main_loop, prompt, max_iterations, i,
                    new_chat_payload, registry, executions, api_op, api_ret, report_file,
                    frames, frame_pos, yielded, first_registered,
                    registered_disabled >>

\* _stream_current_turn 145-146 with client.py 145-153: the POST fails to
\* connect or raise_for_status raises; nothing in cli.py catches it
OpenStreamFail ==
    /\ pc = "open_stream"
    /\ LET r == build_completion_payload(state, prompt)
       IN /\ completion_payload' = r.value
          /\ exc' \in (IF r.raised # None THEN { r.raised } ELSE OpenErrors)
    /\ pc' = "crashed"
    /\ turns' = turns + 1
    /\ last_tool' = NoCall
    /\ UNCHANGED << state, uuid_next, in_main_loop, prompt, max_iterations, i, events,
                    new_chat_payload, registry, executions, api_op, api_ret, report_file,
                    frames, frame_pos, yielded, first_registered,
                    registered_disabled >>

\* _stream_current_turn 146-162: the generator yields one more event
StreamEvent ==
    /\ pc = "stream"
    /\ Len(events) < MaxEvents
    /\ \E e \in Events :
         /\ state' = process_event(state, e)
         /\ events' = Append(events, e)
    /\ UNCHANGED << uuid_next, pc, in_main_loop, prompt, max_iterations, i,
                    completion_payload, new_chat_payload, registry, exc, executions,
                    turns, api_op, api_ret, last_tool, report_file,
                    frames, frame_pos, yielded, first_registered,
                    registered_disabled >>

\* _stream_current_turn 164-167: the server closed the response
StreamExhausted ==
    /\ pc = "stream"
    /\ state' = finish_turn(state)
    /\ pc' = "toolcheck"
    /\ exc' = None
    /\ UNCHANGED << uuid_next, in_main_loop, prompt, max_iterations, i, events,
                    completion_payload, new_chat_payload, registry, executions, turns,
                    api_op, api_ret, last_tool, report_file,
                    frames, frame_pos, yielded, first_registered,
                    registered_disabled >>

\* client.py 173-176 then cli.py 164-167: iter_lines raises in the middle of
\* the stream, the generator swallows it and ends
StreamNetworkError ==
    /\ pc = "stream"
    /\ state' = finish_turn(state)
    /\ pc' = "toolcheck"
    /\ exc' = "swallowed: requests.ChunkedEncodingError"
    /\ UNCHANGED << uuid_next, in_main_loop, prompt, max_iterations, i, events,
                    completion_payload, new_chat_payload, registry, executions, turns,
                    api_op, api_ret, last_tool, report_file,
                    frames, frame_pos, yielded, first_registered,
                    registered_disabled >>

\* run() 262-267 and 281-286: one iteration of the tool loop that calls a
\* tool's execute. An exception that leaves execute leaves run() too: the try
\* of the main loop catches KeyboardInterrupt only
ToolLoopExecute ==
    /\ pc = "toolcheck"
    /\ LoopContinues(i, max_iterations)
    /\ CanBegin
    /\ LET message == state.current_assistant_content
           tool == applicable_tool(registry, message)
       IN /\ tool # None
          /\ \E env \in ToolEnvs(registry, tool) :
               LET r == execute_if_applicable(registry, message, env, report_file)
               IN /\ last_tool' = Called(message, env, report_file, r)
                  /\ report_file' = r.file
                  /\ IF r.raised # None
                     THEN /\ pc' = "crashed"
                          /\ exc' = r.raised
                          /\ UNCHANGED << state, uuid_next, prompt, i >>
                     ELSE /\ prompt' = r.result
                          /\ i' = i + 1
                          /\ state' = begin_turn(state, uuid_next)
                          /\ uuid_next' = uuid_next + 2
                          /\ pc' = "open_stream"
                          /\ exc' = None
    /\ executions' = executions + 1
    /\ UNCHANGED << in_main_loop, max_iterations, events, completion_payload,
                    new_chat_payload, registry, turns, api_op, api_ret,
                    frames, frame_pos, yielded, first_registered,
                    registered_disabled >>

\* run() 263-265 and 282-284: no tool ran, the loop breaks
ToolLoopBreak ==
    /\ pc = "toolcheck"
    /\ LoopContinues(i, max_iterations)
    /\ applicable_tool(registry, state.current_assistant_content) = None
    /\ last_tool' = Called(state.current_assistant_content, NoEnv, report_file,
                           NotExecuted(report_file))
    /\ pc' = "input"
    /\ in_main_loop' = TRUE
    /\ exc' = None
    /\ events' = << >>
    /\ UNCHANGED << state, uuid_next, prompt, max_iterations, i, completion_payload,
                    new_chat_payload, registry, executions, turns, api_op, api_ret,
                    report_file, frames, frame_pos, yielded, first_registered,
                    registered_disabled >>

\* run() 262 and 281: range(max_iterations) is used up
ToolLoopExhausted ==
    /\ pc = "toolcheck"
    /\ ~LoopContinues(i, max_iterations)
    /\ pc' = "input"
    /\ in_main_loop' = TRUE
    /\ exc' = None
    /\ events' = << >>
    /\ UNCHANGED << state, uuid_next, prompt, max_iterations, i, completion_payload,
                    new_chat_payload, registry, executions, turns, api_op, api_ret, last_tool, report_file,
                    frames, frame_pos, yielded, first_registered,
                    registered_disabled >>

\* run() 272-278: input() returns a prompt that is neither empty nor a quit word
HumanPrompt ==
    /\ pc = "input"
    /\ CanBegin
    /\ prompt' \in HumanPrompts
    /\ state' = begin_turn(state, uuid_next)
    /\ uuid_next' = uuid_next + 2
    /\ i' = 0
    /\ executions' = 0
    /\ turns' = 0
    /\ last_tool' = NoCall
    /\ pc' = "open_stream"
    /\ UNCHANGED << in_main_loop, max_iterations, events, completion_payload,
                    new_chat_payload, registry, exc, api_op, api_ret, report_file,
                    frames, frame_pos, yielded, first_registered,
                    registered_disabled >>

\* run() 275-276: a quit word
Quit ==
    /\ pc = "input"
    /\ pc' = "exited"
    /\ UNCHANGED << state, uuid_next, in_main_loop, prompt, max_iterations, i, events,
                    completion_payload, new_chat_payload, registry, exc, executions,
                    turns, api_op, api_ret, last_tool, report_file,
                    frames, frame_pos, yielded, first_registered,
                    registered_disabled >>

\* run() 288-290: KeyboardInterrupt anywhere inside the try of the main loop
Interrupt ==
    /\ in_main_loop
    /\ pc \in { "input", "open_stream", "stream", "toolcheck" }
    /\ pc' = "input"
    /\ events' = << >>
    /\ exc' = "caught: KeyboardInterrupt"
    /\ UNCHANGED << state, uuid_next, in_main_loop, prompt, max_iterations, i,
                    completion_payload, new_chat_payload, registry, executions, turns,
                    api_op, api_ret, last_tool, report_file,
                    frames, frame_pos, yielded, first_registered,
                    registered_disabled >>

\* run() 251-267: KeyboardInterrupt before the main loop is not caught
InterruptFirst ==
    /\ ~in_main_loop
    /\ pc \in { "start", "open_stream", "stream", "toolcheck" }
    /\ pc' = "crashed"
    /\ exc' = "KeyboardInterrupt"
    /\ UNCHANGED << state, uuid_next, in_main_loop, prompt, max_iterations, i, events,
                    completion_payload, new_chat_payload, registry, executions, turns,
                    api_op, api_ret, last_tool, report_file,
                    frames, frame_pos, yielded, first_registered,
                    registered_disabled >>

Next ==
    \/ CreateChatOk
    \/ CreateChatFail
    \/ OpenStreamOk
    \/ OpenStreamFail
    \/ StreamEvent
    \/ StreamExhausted
    \/ StreamNetworkError
    \/ ToolLoopExecute
    \/ ToolLoopBreak
    \/ ToolLoopExhausted
    \/ HumanPrompt
    \/ Quit
    \/ Interrupt
    \/ InterruptFirst

Spec == Init /\ [][Next]_vars

----------------------------------------------------------------------------
(* run() with an assistant that answers with shell commands *)

\* the events of such a server
LoopEvents ==
    { [type |-> "chat:completion", phase |-> "answer", delta |-> << "a" >>, done |-> FALSE],
      [type |-> "chat:completion", phase |-> "answer",
         delta |-> << "<shell>", "ls", "</shell>" >>, done |-> FALSE],
      [type |-> "chat:completion", phase |-> "answer",
         delta |-> << "<echo>", "x", "</echo>" >>, done |-> TRUE] }

\* _stream_current_turn 146-162: the generator yields one more event
StreamLoopEvent ==
    /\ pc = "stream"
    /\ Len(events) < MaxEvents
    /\ \E e \in LoopEvents :
         /\ state' = process_event(state, e)
         /\ events' = Append(events, e)
    /\ UNCHANGED << uuid_next, pc, in_main_loop, prompt, max_iterations, i,
                    completion_payload, new_chat_payload, registry, exc, executions,
                    turns, api_op, api_ret, last_tool, report_file,
                    frames, frame_pos, yielded, first_registered,
                    registered_disabled >>

NextLoop ==
    \/ CreateChatOk
    \/ CreateChatFail
    \/ OpenStreamOk
    \/ OpenStreamFail
    \/ StreamLoopEvent
    \/ StreamExhausted
    \/ StreamNetworkError
    \/ ToolLoopExecute
    \/ ToolLoopBreak
    \/ ToolLoopExhausted
    \/ HumanPrompt
    \/ Quit
    \/ Interrupt
    \/ InterruptFirst

SpecLoop == Init /\ [][NextLoop]_vars

(***************************************************************************)
(* SpecRaw: run() when the stream gives every JSON value json.loads can     *)
(* return (client.py 168-170 yields whatever it decodes), not only objects *)
(* with an object under "data".                                            *)
(***************************************************************************)
\* kind is the Python type of the decoded frame, data_kind the type of
\* event["data"] ("absent" when the key is missing)
RawEvents ==
    { [kind |-> "dict", type |-> "chat:completion", data_kind |-> "dict",
       phase |-> "answer", delta |-> << "<echo>", "x", "</echo>" >>, done |-> FALSE],
      [kind |-> "dict", type |-> "chat:completion", data_kind |-> "absent",
       phase |-> None, delta |-> << >>, done |-> FALSE],
      [kind |-> "dict", type |-> "chat:other", data_kind |-> "str",
       phase |-> None, delta |-> << >>, done |-> FALSE],
      [kind |-> "dict", type |-> "chat:completion", data_kind |-> "None",
       phase |-> None, delta |-> << >>, done |-> FALSE],
      [kind |-> "int", type |-> None, data_kind |-> "absent",
       phase |-> None, delta |-> << >>, done |-> FALSE],
      [kind |-> "list", type |-> None, data_kind |-> "absent",
       phase |-> None, delta |-> << >>, done |-> FALSE] }

\* event.get / data.get on a value that is not a dict
AttributeError == "AttributeError: object has no attribute 'get'"

\* cli.py 146-162: the body of the for loop of _stream_current_turn for one
\* event of any type
turn_event(s, e) ==
    IF e.kind # "dict" THEN [raised |-> AttributeError, state |-> s]
    ELSE IF e.type # "chat:completion" THEN [raised |-> None, state |-> s]
    ELSE IF e.data_kind = "absent" THEN [raised |-> None, state |-> s]
    ELSE IF e.data_kind # "dict" THEN [raised |-> AttributeError, state |-> s]
    ELSE [raised |-> None, state |-> process_event(s, e)]

\* _stream_current_turn 146-162: the generator yields one more event; an
\* exception of the loop body leaves _stream_current_turn and run()
StreamRawEvent ==
    /\ pc = "stream"
    /\ Len(events) < MaxEvents
    /\ \E e \in RawEvents :
         LET r == turn_event(state, e)
         IN /\ events' = Append(events, e)
            /\ state' = r.state
            /\ IF r.raised # None
               THEN pc' = "crashed" /\ exc' = r.raised
               ELSE UNCHANGED << pc, exc >>
    /\ UNCHANGED << uuid_next, in_main_loop, prompt, max_iterations, i,
                    completion_payload, new_chat_payload, registry, executions,
                    turns, api_op, api_ret, last_tool, report_file,
                    frames, frame_pos, yielded, first_registered,
                    registered_disabled >>

NextRaw ==
    \/ CreateChatOk
    \/ CreateChatFail
    \/ OpenStreamOk
    \/ OpenStreamFail
    \/ StreamRawEvent
    \/ StreamExhausted
    \/ StreamNetworkError
    \/ ToolLoopExecute
    \/ ToolLoopBreak
    \/ ToolLoopExhausted
    \/ HumanPrompt
    \/ Quit
    \/ Interrupt
    \/ InterruptFirst

SpecRaw == Init /\ [][NextRaw]_vars

----------------------------------------------------------------------------
(* The registry of _setup_tools driven directly: execute_if_applicable on *)
(* any assistant text                                                     *)

\* most entries report.md gets
MaxReports == 2

\* the texts execute_if_applicable is called on
Messages ==
    { << "a" >>,
      << "<echo>", "x", "</echo>" >>,
      << "<echo>", "</echo>" >>,
      << "<echo>", " ", "</echo>" >>,
      << "<shell>", "ls", "</shell>" >>,
      << "<shell>", " ", "</shell>" >>,
      << "a", "<fence>shell", "ls", "<fence>" >>,
      << "<read_file>", "p", "</read_file>" >>,
      << "<write_file path=\"p\">", "c", "</write_file>" >>,
      << "<report title=\"t\">", "f", "</report>" >>,
      << "<report title=\"t\">", "see", "### ID: ", "0", "4", "1", "</report>" >>,
      << "<shell>", "ls", "</shell>", "<echo>", "x", "</echo>" >> }

\* the registries of the dispatch runs: those of ToolConfigs, one without the
\* echo tool and one with no tool enabled
DispatchConfigs ==
    ToolConfigs
    \cup { ToolRegistry({ "file_read", "file_write", "report", "shell" }),
           ToolRegistry({ }) }

\* the entries of report.md
Entries(file) == Cardinality({ k \in 1..Len(file.content) : file.content[k] = "\n---\n" })

InitDispatch ==
    /\ state = ChatState(FALSE)
    /\ uuid_next = 1
    /\ pc = "dispatch"
    /\ in_main_loop = FALSE
    /\ prompt \in HumanPrompts
    /\ max_iterations = 0
    /\ i = 0
    /\ events = << >>
    /\ completion_payload = NoPayload
    /\ new_chat_payload = NoNewChat
    /\ registry \in DispatchConfigs
    /\ exc = None
    /\ executions = 0
    /\ turns = 0
    /\ api_op = None
    /\ api_ret = None
    /\ last_tool = NoCall
    /\ report_file = NoFile
    /\ frames = << >>
    /\ frame_pos = 0
    /\ yielded = << >>
    /\ first_registered = << >>
    /\ registered_disabled = { }

\* api_op and api_ret are the last call of extract_request when it was the
\* last call made, last_tool the last call of execute_if_applicable when it was
DispatchFrame ==
    /\ api_op' = "execute_if_applicable"
    /\ api_ret' = None
    /\ UNCHANGED << state, uuid_next, pc, in_main_loop, prompt, max_iterations, i,
                    events, completion_payload, new_chat_payload, registry, exc, turns,
                    frames, frame_pos, yielded, first_registered,
                    registered_disabled >>

\* execute_if_applicable(message) returns not executed
DispatchNone ==
    /\ pc = "dispatch"
    /\ \E message \in Messages :
         /\ applicable_tool(registry, message) = None
         /\ last_tool' = Called(message, NoEnv, report_file,
                                execute_if_applicable(registry, message, NoEnv, report_file))
    /\ executions' = 0
    /\ UNCHANGED report_file
    /\ DispatchFrame

\* execute_if_applicable(message) calls the execute of a tool
DispatchExecute ==
    /\ pc = "dispatch"
    /\ Entries(report_file) < MaxReports
    /\ \E message \in Messages :
         /\ applicable_tool(registry, message) # None
         /\ \E env \in ToolEnvs(registry, applicable_tool(registry, message)) :
              LET r == execute_if_applicable(registry, message, env, report_file)
              IN /\ last_tool' = Called(message, env, report_file, r)
                 /\ report_file' = r.file
    /\ executions' = 1
    /\ DispatchFrame

\* what a call of tool.extract_request(message) returned, and whether the
\* call before it was made on the same tool and text
Extracted(tool, message, request, again) ==
    [raised |-> None,
     value |-> [tool |-> tool, message |-> message, request |-> request, again |-> again]]

\* tool.extract_request(message) called directly, for any registered tool
DispatchExtract ==
    /\ pc = "dispatch"
    /\ \E k \in 1..Len(registry.tools), message \in Messages :
         api_ret' = Extracted(registry.tools[k], message,
                              extract_request(registry.tools[k], message),
                              /\ api_op = "extract_request"
                              /\ api_ret.value.tool = registry.tools[k]
                              /\ api_ret.value.message = message)
    /\ api_op' = "extract_request"
    /\ last_tool' = NoCall
    /\ executions' = 0
    /\ UNCHANGED << state, uuid_next, pc, in_main_loop, prompt, max_iterations, i, events,
                    completion_payload, new_chat_payload, registry, exc, turns,
                    report_file, frames, frame_pos, yielded, first_registered,
                    registered_disabled >>

NextDispatch == DispatchNone \/ DispatchExecute \/ DispatchExtract

SpecDispatch == InitDispatch /\ [][NextDispatch]_vars

----------------------------------------------------------------------------
(* The ChatState object driven directly: any caller, any order of calls *)

\* the deltas a caller passes to apply_assistant_delta
Deltas == { << "a" >>, << "<echo>", "x", "</echo>" >> }

ApiResult(raised, value) == [raised |-> raised, value |-> value]

\* state.py 30: None is the default of the dataclass, any string can be given
SystemPrompts == { None, "", TOOL_SYSTEM_HINT }

InitAPI ==
    /\ state \in { [ChatState(show) EXCEPT !.system_prompt = sp] :
                      show \in BOOLEAN, sp \in SystemPrompts }
    /\ uuid_next = 1
    /\ pc = "api"
    /\ in_main_loop = FALSE
    /\ prompt \in HumanPrompts
    /\ max_iterations = 0
    /\ i = 0
    /\ events = << >>
    /\ completion_payload = NoPayload
    /\ new_chat_payload = NoNewChat
    /\ registry = ToolRegistry({ })
    /\ exc = None
    /\ executions = 0
    /\ turns = 0
    /\ api_op = None
    /\ api_ret = ApiResult(None, None)
    /\ last_tool = NoCall
    /\ report_file = NoFile
    /\ frames = << >>
    /\ frame_pos = 0
    /\ yielded = << >>
    /\ first_registered = << >>
    /\ registered_disabled = { }

ApiFrame ==
    UNCHANGED << pc, in_main_loop, prompt, max_iterations, i, events, completion_payload,
                 new_chat_payload, registry, exc, executions, turns, last_tool,
                 report_file, frames, frame_pos, yielded, first_registered,
                    registered_disabled >>

\* state.begin_turn(prompt)
ApiBeginTurn ==
    /\ CanBegin
    /\ state' = begin_turn(state, uuid_next)
    /\ uuid_next' = uuid_next + 2
    /\ api_op' = "begin_turn"
    /\ api_ret' = ApiResult(None, << uuid_next, uuid_next + 1 >>)
    /\ ApiFrame

\* state.apply_assistant_delta(delta)
ApiApplyDelta ==
    /\ Len(state.current_assistant_content) < MaxEvents
    /\ \E d \in Deltas : state' = apply_assistant_delta(state, d)
    /\ api_op' = "apply_assistant_delta"
    /\ api_ret' = ApiResult(None, None)
    /\ UNCHANGED uuid_next
    /\ ApiFrame

\* state.finish_turn()
ApiFinishTurn ==
    /\ state' = finish_turn(state)
    /\ api_op' = "finish_turn"
    /\ api_ret' = ApiResult(None, None)
    /\ UNCHANGED uuid_next
    /\ ApiFrame

\* state.chat_id = client.create_chat(...), assigned once as run() does
ApiSetChatId ==
    /\ state.chat_id = None
    /\ \E cid \in ChatIds : state' = [state EXCEPT !.chat_id = cid]
    /\ api_op' = "set_chat_id"
    /\ api_ret' = ApiResult(None, None)
    /\ UNCHANGED uuid_next
    /\ ApiFrame

\* state.build_completion_payload(prompt)
ApiBuildCompletionPayload ==
    /\ api_op' = "build_completion_payload"
    /\ api_ret' = build_completion_payload(state, prompt)
    /\ UNCHANGED << state, uuid_next >>
    /\ ApiFrame

\* state.build_new_chat_payload(prompt)
ApiBuildNewChatPayload ==
    /\ api_op' = "build_new_chat_payload"
    /\ api_ret' = build_new_chat_payload(state, prompt)
    /\ UNCHANGED << state, uuid_next >>
    /\ ApiFrame

NextAPI ==
    \/ ApiBeginTurn
    \/ ApiApplyDelta
    \/ ApiFinishTurn
    \/ ApiSetChatId
    \/ ApiBuildCompletionPayload
    \/ ApiBuildNewChatPayload

SpecAPI == InitAPI /\ [][NextAPI]_vars

----------------------------------------------------------------------------
(* A ToolRegistry driven directly: any caller, any order of calls *)

\* the names of the tools the caller registers
RegistryNames == { "echo", "report", "shell" }

\* the texts the caller passes to find_tool_for_message
FindMessages ==
    { << "a" >>,
      << "<echo>", "x", "</echo>" >>,
      << "<shell>", "ls", "</shell>", "<echo>", "x", "</echo>" >>,
      << "<report title=\"t\">", "<read_file>", "p", "</read_file>", "</report>" >> }

InitRegistry ==
    /\ state = ChatState(FALSE)
    /\ uuid_next = 1
    /\ pc = "registry"
    /\ in_main_loop = FALSE
    /\ prompt = << >>
    /\ max_iterations = 0
    /\ i = 0
    /\ events = << >>
    /\ completion_payload = NoPayload
    /\ new_chat_payload = NoNewChat
    /\ registry = EmptyRegistry
    /\ exc = None
    /\ executions = 0
    /\ turns = 0
    /\ api_op = None
    /\ api_ret = ApiResult(None, None)
    /\ last_tool = NoCall
    /\ report_file = NoFile
    /\ frames = << >>
    /\ frame_pos = 0
    /\ yielded = << >>
    /\ first_registered = << >>
    /\ registered_disabled = { }

\* last_tool is the call of execute_if_applicable that was the last call made
\* on the registry, if it was one
RegistryFrame ==
    /\ last_tool' = NoCall
    /\ UNCHANGED << state, uuid_next, pc, in_main_loop, max_iterations, i, events,
                    completion_payload, new_chat_payload, exc, executions, turns,
                    report_file, frames, frame_pos, yielded >>

\* registry.register(tool, enabled) with tool.name = name; api_ret.value is
\* the name the call was about
RegRegister ==
    /\ pc = "registry"
    /\ \E name \in RegistryNames, enabled \in BOOLEAN :
         /\ registry' = register(registry, name, enabled)
         /\ first_registered' =
               IF \E k \in 1..Len(first_registered) : first_registered[k] = name
               THEN first_registered
               ELSE Append(first_registered, name)
         /\ registered_disabled' =
               IF enabled THEN registered_disabled \ { name }
               ELSE registered_disabled \cup { name }
         /\ api_ret' = ApiResult(None, name)
    /\ api_op' = "register"
    /\ prompt' = << >>
    /\ RegistryFrame

\* registry.enable(name)
RegEnable ==
    /\ pc = "registry"
    /\ \E name \in RegistryNames :
         /\ registry' = enable(registry, name)
         /\ registered_disabled' = registered_disabled \ { name }
         /\ api_ret' = ApiResult(None, name)
    /\ api_op' = "enable"
    /\ prompt' = << >>
    /\ UNCHANGED first_registered
    /\ RegistryFrame

\* registry.disable(name)
RegDisable ==
    /\ pc = "registry"
    /\ \E name \in RegistryNames :
         /\ registry' = disable(registry, name)
         /\ api_ret' = ApiResult(None, name)
    /\ api_op' = "disable"
    /\ prompt' = << >>
    /\ UNCHANGED << first_registered, registered_disabled >>
    /\ RegistryFrame

\* registry.find_tool_for_message(message); prompt is the message, api_ret.value
\* the name of the tool returned
RegFind ==
    /\ pc = "registry"
    /\ \E message \in FindMessages :
         /\ prompt' = message
         /\ api_ret' = ApiResult(None, find_tool_for_message(registry, message))
    /\ api_op' = "find_tool_for_message"
    /\ UNCHANGED << registry, first_registered,
                    registered_disabled >>
    /\ RegistryFrame

\* the texts the caller passes to execute_if_applicable
RegistryMessages ==
    { << "a" >>,
      << "<echo>", "x", "</echo>" >>,
      << "<shell>", "ls", "</shell>", "<echo>", "x", "</echo>" >>,
      << "<echo>", "</echo>", "<shell>", "ls", "</shell>" >> }

\* registry.execute_if_applicable(message); prompt is the message, api_ret.value
\* the name of the tool whose execute was called
RegDispatch ==
    /\ pc = "registry"
    /\ \E message \in RegistryMessages :
         LET tool == applicable_tool(registry, message)
         IN \E env \in (IF tool = None THEN { NoEnv } ELSE ToolEnvs(registry, tool)) :
              LET r == execute_if_applicable(registry, message, env, report_file)
              IN /\ last_tool' = Called(message, env, report_file, r)
                 /\ report_file' = r.file
                 /\ api_ret' = ApiResult(r.raised, r.tool)
                 /\ prompt' = message
    /\ api_op' = "execute_if_applicable"
    /\ UNCHANGED << state, uuid_next, pc, in_main_loop, max_iterations, i, events,
                    completion_payload, new_chat_payload, registry, exc, executions,
                    turns, frames, frame_pos, yielded, first_registered,
                    registered_disabled >>

NextRegistry == RegRegister \/ RegEnable \/ RegDisable \/ RegFind \/ RegDispatch

SpecRegistry == InitRegistry /\ [][NextRegistry]_vars

----------------------------------------------------------------------------
(* zagent/core/client.py: the frames of stream_completion *)

\* most lines the response body has
MaxFrames == 3

DataPrefix == "data: "
DoneSentinel == "[DONE]"

\* the texts json.loads accepts, among those the server sends
JsonTexts == { "{\"type\":\"chat:completion\"}", "{\"type\":\"chat:other\"}", "7" }

\* json.loads(text) for a text of JsonTexts
json_loads(text) ==
    CASE text = "{\"type\":\"chat:completion\"}" -> [kind |-> "dict", type |-> "chat:completion"]
      [] text = "{\"type\":\"chat:other\"}" -> [kind |-> "dict", type |-> "chat:other"]
      [] text = "7" -> [kind |-> "int", type |-> None]

\* the lines iter_lines gives, as the pieces they are made of: << >> is the
\* empty line, "oops" a text that is not JSON
Lines ==
    { << >>,
      << DataPrefix >>,
      << DataPrefix, "{\"type\":\"chat:completion\"}" >>,
      << "{\"type\":\"chat:other\"}" >>,
      << DataPrefix, "7" >>,
      << DataPrefix, DoneSentinel >>,
      << DoneSentinel >>,
      << DataPrefix, "oops" >>,
      << DataPrefix, DataPrefix, "{\"type\":\"chat:completion\"}" >> }

\* what one pass of the for loop does: yield is the events it yields, ends
\* whether the generator returns after it
Pass(yield, ends) == [yield |-> yield, ends |-> ends]

\* mutant of stream_line: the sentinel ends the stream
stream_line_done_ends(raw_line) ==
    IF raw_line = << >> THEN Pass(<< >>, FALSE)
    ELSE LET content == IF Head(raw_line) = DataPrefix THEN Tail(raw_line) ELSE raw_line
         IN IF content = << >> THEN Pass(<< >>, FALSE)
            ELSE IF content = << DoneSentinel >> THEN Pass(<< >>, TRUE)
            ELSE IF Len(content) = 1 /\ content[1] \in JsonTexts
                 THEN Pass(<< json_loads(content[1]) >>, FALSE)
                 ELSE Pass(<< >>, FALSE)

\* the body of the for loop of stream_completion for one line
stream_line(raw_line) ==
    IF raw_line = << >> THEN Pass(<< >>, FALSE)
    ELSE LET content == IF Head(raw_line) = DataPrefix THEN Tail(raw_line) ELSE raw_line
         IN IF content = << >> \/ content = << DoneSentinel >> THEN Pass(<< >>, FALSE)
            ELSE IF Len(content) = 1 /\ content[1] \in JsonTexts
                 THEN Pass(<< json_loads(content[1]) >>, FALSE)
                 ELSE Pass(<< >>, FALSE)

\* the sequences of at most n lines
RECURSIVE LineSeqs(_)
LineSeqs(n) ==
    IF n = 0 THEN { << >> }
    ELSE LET shorter == LineSeqs(n - 1)
         IN shorter \cup { Append(ls, l) : ls \in shorter, l \in Lines }

InitFrames ==
    /\ state = ChatState(FALSE)
    /\ uuid_next = 1
    /\ pc = "frames"
    /\ in_main_loop = FALSE
    /\ prompt = << >>
    /\ max_iterations = 0
    /\ i = 0
    /\ events = << >>
    /\ completion_payload = NoPayload
    /\ new_chat_payload = NoNewChat
    /\ registry = EmptyRegistry
    /\ exc = None
    /\ executions = 0
    /\ turns = 0
    /\ api_op = None
    /\ api_ret = None
    /\ last_tool = NoCall
    /\ report_file = NoFile
    /\ frames \in LineSeqs(MaxFrames)
    /\ frame_pos = 0
    /\ yielded = << >>
    /\ first_registered = << >>
    /\ registered_disabled = { }

FramesFrame ==
    UNCHANGED << state, uuid_next, in_main_loop, prompt, max_iterations, i, events,
                 completion_payload, new_chat_payload, registry, executions, turns,
                 api_op, api_ret, last_tool, report_file, frames, first_registered,
                    registered_disabled >>

\* client.py 156-172: iter_lines gives the next line
FrameLine ==
    /\ pc = "frames"
    /\ frame_pos < Len(frames)
    /\ LET r == stream_line(frames[frame_pos + 1])
       IN /\ yielded' = yielded \o r.yield
          /\ pc' = IF r.ends THEN "frames_done" ELSE "frames"
    /\ frame_pos' = frame_pos + 1
    /\ UNCHANGED exc
    /\ FramesFrame

\* client.py 156: the response body is at its end
FrameEnd ==
    /\ pc = "frames"
    /\ frame_pos = Len(frames)
    /\ pc' = "frames_done"
    /\ UNCHANGED << frame_pos, yielded, exc >>
    /\ FramesFrame

\* client.py 173-176: iter_lines raises, the generator swallows it and ends;
\* the lines not read yet are lost
FrameNetworkError ==
    /\ pc = "frames"
    /\ frame_pos < Len(frames)
    /\ pc' = "frames_done"
    /\ exc' = "swallowed: requests.ChunkedEncodingError"
    /\ UNCHANGED << frame_pos, yielded >>
    /\ FramesFrame

NextFrames == FrameLine \/ FrameEnd \/ FrameNetworkError

SpecFrames == InitFrames /\ [][NextFrames]_vars

(***************************************************************************)
(* client.py 52-63: the request signature.  SpecSignature calls            *)
(* _generate_signature with inputs drawn from small sets and keeps the     *)
(* previous call beside the last one.  HMAC-SHA256 and base64 are kept as  *)
(* terms over their arguments: two digests are equal exactly when they     *)
(* were computed from the same key and the same message.                   *)
(***************************************************************************)
MaxWindow == 2

\* client.py 60: 5 * 60 * 1000
WindowMs == 300000

\* client.py 16
SECRET == "key-@@@@)))()((9))-xxxx&&&%%%%%"

\* hmac.new(key, msg, hashlib.sha256).hexdigest()
hmac_hexdigest(key, msg) == [key |-> key, msg |-> msg]

\* client.py 52-56
js_like_base64(text) == << "b64(" >> \o text \o << ")" >>

\* a signature whose key and message leave the timestamp out
generate_signature_static(sorted_payload, action, timestamp_ms) ==
    LET d_hex == hmac_hexdigest(SECRET, Decimal(0))
        payload == sorted_payload \o << "|" >> \o js_like_base64(action)
    IN  hmac_hexdigest(d_hex, payload)

\* client.py 58-63
generate_signature(sorted_payload, action, timestamp_ms) ==
    LET w == timestamp_ms \div WindowMs
        d_hex == hmac_hexdigest(SECRET, Decimal(w))
        payload == sorted_payload \o << "|" >> \o js_like_base64(action)
                       \o << "|" >> \o Decimal(timestamp_ms)
    IN  hmac_hexdigest(d_hex, payload)

\* client.py 142: requestId,<id>,timestamp,<ts>,user_id,<uid>
SortedPayloads ==
    { << "requestId,", "r1", ",timestamp,", "t", ",user_id,", "u1" >>,
      << "requestId,", "r2", ",timestamp,", "t", ",user_id,", "" >> }

\* client.py 143: action is the content of the request
SignedActions == { << "hi" >>, << "<echo>", "x", "</echo>" >> }

\* timestamps at the start, just after the start and at the end of each window
Timestamps ==
    { w * WindowMs + off : w \in 0..MaxWindow, off \in {0, 1, WindowMs - 1} }

NoSignature == [called |-> FALSE]

Signed(sorted_payload, action, timestamp_ms) ==
    [called |-> TRUE, sorted_payload |-> sorted_payload, action |-> action,
     timestamp_ms |-> timestamp_ms,
     signature |-> generate_signature(sorted_payload, action, timestamp_ms)]

InitSignature ==
    /\ state = ChatState(FALSE)
    /\ uuid_next = 1
    /\ pc = "signature"
    /\ in_main_loop = FALSE
    /\ prompt = << >>
    /\ max_iterations = 0
    /\ i = 0
    /\ events = << >>
    /\ completion_payload = NoPayload
    /\ new_chat_payload = NoNewChat
    /\ registry = EmptyRegistry
    /\ exc = None
    /\ executions = 0
    /\ turns = 0
    /\ api_op = None
    /\ api_ret = ApiResult(None, [last |-> NoSignature, before |-> NoSignature])
    /\ last_tool = NoCall
    /\ report_file = NoFile
    /\ frames = << >>
    /\ frame_pos = 0
    /\ yielded = << >>
    /\ first_registered = << >>
    /\ registered_disabled = { }

\* client.py 142-143: one request is signed
SignRequest ==
    /\ pc = "signature"
    /\ \E sorted_payload \in SortedPayloads, action \in SignedActions,
          timestamp_ms \in Timestamps :
         api_ret' = ApiResult(None, [last |-> Signed(sorted_payload, action, timestamp_ms),
                                     before |-> api_ret.value.last])
    /\ api_op' = "_generate_signature"
    /\ UNCHANGED << state, uuid_next, pc, in_main_loop, prompt, max_iterations, i,
                    events, completion_payload, new_chat_payload, registry, exc,
                    executions, turns, last_tool, report_file, frames, frame_pos,
                    yielded, first_registered,
                    registered_disabled >>

SpecSignature == InitSignature /\ [][SignRequest]_vars

(***************************************************************************)
(* file_write_tool.py: SpecWrite gives write_file tags with paths and      *)
(* bodies from small sets to extract_request and execute of a local        *)
(* FileWriteTool; api_ret.value is the log of the calls.                   *)
(***************************************************************************)
MaxWrites == 2

\* the path attributes of the tags
WritePaths == { << "p" >>, << "d", "/", "f" >>, << "a", "|", "b" >> }

\* the bodies of the tags
WriteBodies == { << >>, << "c" >>, << "x", "|", "y" >>, << "|" >> }

\* file_write_tool.py 74, 82 and 43-47: the path _write_local opens and the
\* text it writes there
file_write_written(request) ==
    LET parts == Split1(request)
    IN [path |-> parts[1], content |-> parts[2]]

\* one tag with its request and what its execute did
Written(path, body) ==
    LET request == write_request(path, body)
        out == file_write_execute(request, FALSE, "ok", NoFile)
    IN [path |-> path, body |-> body, request |-> request,
        success |-> out.success, written |-> file_write_written(request)]

InitWrite ==
    /\ state = ChatState(FALSE)
    /\ uuid_next = 1
    /\ pc = "write"
    /\ in_main_loop = FALSE
    /\ prompt = << >>
    /\ max_iterations = 0
    /\ i = 0
    /\ events = << >>
    /\ completion_payload = NoPayload
    /\ new_chat_payload = NoNewChat
    /\ registry = EmptyRegistry
    /\ exc = None
    /\ executions = 0
    /\ turns = 0
    /\ api_op = None
    /\ api_ret = ApiResult(None, << >>)
    /\ last_tool = NoCall
    /\ report_file = NoFile
    /\ frames = << >>
    /\ frame_pos = 0
    /\ yielded = << >>
    /\ first_registered = << >>
    /\ registered_disabled = { }

\* tool.execute(tool.extract_request(message)) for a message with one
\* write_file tag
WriteTag ==
    /\ pc = "write"
    /\ Len(api_ret.value) < MaxWrites
    /\ \E path \in WritePaths, body \in WriteBodies :
         api_ret' = ApiResult(None, Append(api_ret.value, Written(path, body)))
    /\ api_op' = "file_write"
    /\ UNCHANGED << state, uuid_next, pc, in_main_loop, prompt, max_iterations, i,
                    events, completion_payload, new_chat_payload, registry, exc,
                    executions, turns, last_tool, report_file, frames, frame_pos,
                    yielded, first_registered, registered_disabled >>

SpecWrite == InitWrite /\ [][WriteTag]_vars


----------------------------------------------------------------------------
(* Claims *)

Content == state.current_assistant_content
ParentLink == state.current_user_message_parent_id
LastEvent == events[Len(events)]

\* the event carries a terminal signal
Terminal(e) == e.phase = "done" \/ e.done

\* the assistant-message id of the turn before the one whose id is a: the uuid
\* factory counts 1, 2, 3, ... and every begin_turn takes two values
PreviousAssistantId(a) == IF a <= 2 THEN NoId ELSE a - 2

\* C1: the parent link in the completion payload of a turn is the
\* assistant-message id begin_turn allocated for the turn before it, and is
\* empty for the first turn, however the earlier stream ended.
C1_ParentLinkThreaded ==
    pc = "stream" =>
        completion_payload.current_user_message_parent_id
            = PreviousAssistantId(completion_payload.id)

\* C2: for one human prompt at most max_iterations tools are executed and at
\* most max_iterations + 1 streaming turns run.
C2_IterationCap ==
    /\ executions <= max_iterations
    /\ turns <= max_iterations + 1

\* C2 witness: the budget is used up while the last response still holds a
\* tool trigger.
C2_Witness ==
    /\ pc = "toolcheck"
    /\ max_iterations >= 2
    /\ executions = max_iterations
    /\ turns = max_iterations + 1
    /\ applicable_tool(registry, Content) # None

\* C3: a transport error of the streaming call never leaves run() as an
\* exception, and finish_turn has run when the turn is over.
C3_TransportErrorsSilent ==
    /\ ~(pc = "crashed" /\ exc \in OpenErrors)
    /\ (pc = "toolcheck" => ParentLink = state.current_assistant_message_id)

\* C4: the accumulated content changes only on a non-empty delta of the
\* final-answer phase; a thinking-phase delta never changes it, whatever
\* runtime_show_thinking is.
C4_OnlyFinalPhaseApplied ==
    [][(pc = "stream" /\ pc' = "stream" /\ Len(events') = Len(events) + 1)
         => LET e == events'[Len(events')]
            IN /\ e.phase = "thinking" => state'.current_assistant_content = Content
               /\ state'.current_assistant_content # Content
                    => e.delta # << >> /\ e.phase \in { None, "answer" }]_vars

\* the concatenation of the final-phase deltas of the completion events
RECURSIVE FinalText(_)
FinalText(evs) ==
    IF evs = << >> THEN << >>
    ELSE (IF Head(evs).type = "chat:completion" /\ Head(evs).phase \in { None, "answer" }
          THEN Head(evs).delta ELSE << >>) \o FinalText(Tail(evs))

\* C5: when the stream of a turn is exhausted the accumulated content is the
\* concatenation, in arrival order, of the final-phase deltas of that stream.
C5_ContentIsFinalText ==
    pc = "toolcheck" => Content = FinalText(events)

\* C6: once chat_id is set no step of the run changes it.
C6_ChatIdImmutable ==
    [][state.chat_id # None => state'.chat_id = state.chat_id]_vars

\* C6 witness: the id is set and a later human turn, in the main loop, has run
\* a tool and streamed the follow-up turn.
C6_Witness ==
    /\ state.chat_id \in ChatIds
    /\ in_main_loop
    /\ executions >= 1
    /\ pc = "toolcheck"

\* C7: build_completion_payload raises and leaves the state alone when the
\* chat id or the ids of begin_turn are missing; otherwise it returns a payload
\* with the current assistant-message, user-message and parent-link ids.
C7_CompletionPayloadPrecondition ==
    [][api_op' = "build_completion_payload" =>
         /\ state' = state
         /\ IF \/ state.chat_id = None
               \/ state.current_user_message_id = NoId
               \/ state.current_assistant_message_id = NoId
            THEN /\ api_ret'.raised # None
                 /\ api_ret'.value = NoPayload
            ELSE /\ api_ret'.raised = None
                 /\ api_ret'.value.id = state.current_assistant_message_id
                 /\ api_ret'.value.current_user_message_id = state.current_user_message_id
                 /\ api_ret'.value.current_user_message_parent_id = ParentLink
                 /\ api_ret'.value.chat_id = state.chat_id]_vars

\* C7 witness: the call failed although a chat id was set, because begin_turn
\* had not been called.
C7_Witness ==
    /\ api_op = "build_completion_payload"
    /\ state.chat_id \in ChatIds
    /\ state.current_user_message_id = NoId
    /\ api_ret.raised # None

\* C8: build_new_chat_payload raises when begin_turn has not been called;
\* otherwise the payload holds exactly one message, keyed by the current
\* user-message id, with no parent, and the completion payload of the same
\* turn carries the same user-message id.
C8_NewChatPayload ==
    [][api_op' = "build_new_chat_payload" =>
         IF state.current_user_message_id = NoId
         THEN api_ret'.raised # None
         ELSE /\ api_ret'.raised = None
              /\ Cardinality(api_ret'.value.messages) = 1
              /\ \A m \in api_ret'.value.messages :
                   /\ m.key = state.current_user_message_id
                   /\ m.id = m.key
                   /\ m.parentId = NoId
                   /\ m.role = "user"
                   /\ LET c == build_completion_payload(state', prompt)
                      IN c.raised = None => c.value.current_user_message_id = m.key]_vars

\* C8 witness: the payload was built in a turn whose completion payload can
\* be built too.
C8_Witness ==
    /\ api_op = "build_new_chat_payload"
    /\ api_ret.raised = None
    /\ build_completion_payload(state, prompt).raised = None

\* the loop body reached "state.finish_turn()" of line 162 for e
TerminalProcessed(e) ==
    e.type = "chat:completion" /\ e.delta # << >> /\ Terminal(e)

\* C9: finish_turn twice is finish_turn once, and after the call a terminal
\* event triggered, the unconditional call after the stream changes nothing.
C9_FinishTurnIdempotent ==
    /\ finish_turn(finish_turn(state)) = finish_turn(state)
    /\ (pc = "stream" /\ events # << >> /\ TerminalProcessed(LastEvent))
         => finish_turn(state) = state

\* C9 witness: a stream whose last event triggered finish_turn has ended, so
\* both calls have run with nothing in between.
C9_Witness ==
    /\ pc = "toolcheck"
    /\ events # << >>
    /\ TerminalProcessed(LastEvent)
    /\ ParentLink # NoId

\* C10: once a completion event with a terminal signal has been processed,
\* finish_turn has run, before the next event is consumed.
C10_TerminalTriggersFinish ==
    (pc = "stream" /\ events # << >>
       /\ LastEvent.type = "chat:completion" /\ Terminal(LastEvent))
      => ParentLink = state.current_assistant_message_id

----------------------------------------------------------------------------
(* Claims C11..C20 *)

\* the tool find_tool_for_message gives for the text of the last call
MatchedTool == find_tool_for_message(registry, last_tool.message)

\* what its extract_request gives (Absent when no tool matched)
MatchedRequest ==
    IF MatchedTool = None THEN Absent ELSE extract_request(MatchedTool, last_tool.message)

EnabledMatches ==
    { k \in 1..Len(first_registered) :
        /\ first_registered[k] \in registry.enabled_tools
        /\ can_handle(first_registered[k], prompt) }

\* C12: find_tool_for_message returns the enabled tool that matches the text
\* and was registered first, or None when no enabled tool matches; the tools
\* are always kept in the order in which each name was registered for the
\* first time, whatever calls of register, enable and disable were made.
C12_EarliestRegisteredMatch ==
    /\ registry.tools = first_registered
    /\ api_op = "find_tool_for_message" =>
          IF EnabledMatches = { } THEN api_ret.value = None
          ELSE \E k \in EnabledMatches :
                  /\ api_ret.value = first_registered[k]
                  /\ \A j \in EnabledMatches : k <= j

\* a text two enabled tools match was resolved to the tool registered first,
\* which is not the tool whose tag comes first in the text
C12_Witness ==
    /\ api_op = "find_tool_for_message"
    /\ Cardinality(EnabledMatches) = 2
    /\ api_ret.value = "echo"
    /\ prompt[1] = "<shell>"
    /\ first_registered = << "report", "echo", "shell" >>

\* C13: enable(name) and disable(name) leave the registered tools and their
\* order as they were and change the enabled set for name only; a tool that
\* get_tool found before disable(name) is found after it; and enable(name)
\* after disable(name) of an enabled tool gives the registry back.
C13_EnableDisableFrame ==
    [][ (api_op' \in { "enable", "disable" }) =>
          LET name == api_ret'.value
          IN /\ registry'.tools = registry.tools
             /\ registry'.enabled_tools \ { name } = registry.enabled_tools \ { name }
             /\ registry'.auto_approve = registry.auto_approve
             /\ registry'.use_docker = registry.use_docker
             /\ \A n \in RegistryNames : get_tool(registry', n) = get_tool(registry, n)
             /\ (api_op' = "enable" /\ InTools(registry, name))
                   => name \in registry'.enabled_tools
             /\ api_op' = "disable" =>
                   /\ name \notin registry'.enabled_tools
                   /\ name \in registry.enabled_tools
                        => enable(registry', name) = registry ]_vars

\* an enabled tool that is not the last one registered was disabled and is
\* still registered
C13_Witness ==
    /\ api_op = "disable"
    /\ api_ret.value = "echo"
    /\ registry.tools = << "echo", "shell" >>
    /\ registry.enabled_tools = { "shell" }
    /\ get_tool(registry, "echo") = "echo"

\* C14: whenever execute_if_applicable calls the execute of a tool, whatever
\* the tool and whatever fails in it, execute returns: no exception leaves
\* it, and the call returns executed with a rendered result.
C14_ExecuteNeverRaises ==
    (last_tool.called /\ last_tool.tool # None)
        => (last_tool.raised = None /\ last_tool.executed /\ last_tool.result # << >>)

\* C15 as stated: when a tool ran and its result starts the next turn, no
\* human input was read since the stream before it ended.
C15_NoHumanInputConsumed ==
    (pc = "open_stream" /\ last_tool.executed) => ~last_tool.asked

\* C15 amended: whenever execute_if_applicable returns executed inside the
\* iteration budget, the prompt of the next streaming turn is the result text
\* it returned, the turn starts with a begin_turn (two fresh ids, empty
\* assistant text) and no prompt is read from the human; the only input read
\* between the two streams is the answer to the confirmation prompt of the
\* shell tool, asked unless auto_approve is set.
C15_ToolResultIsNextPrompt ==
    [][ (pc = "toolcheck" /\ pc' = "open_stream") =>
          /\ LoopContinues(i, max_iterations)
          /\ i' = i + 1
          /\ last_tool'.executed
          /\ last_tool'.message = state.current_assistant_content
          /\ prompt' = last_tool'.result
          /\ prompt' # << >>
          /\ state'.current_assistant_content = << >>
          /\ state'.current_user_message_id = uuid_next
          /\ state'.current_assistant_message_id = uuid_next + 1
          /\ state'.current_user_message_id # state.current_user_message_id
          /\ state'.current_assistant_message_id # state.current_assistant_message_id
          /\ state'.current_user_message_parent_id = state.current_user_message_parent_id
          /\ state'.chat_id = state.chat_id
          /\ last_tool'.asked = (last_tool'.tool = "shell" /\ ~registry.auto_approve) ]_vars

\* the human accepted a shell command, it ran, and its result is the prompt
\* of the turn that is about to stream
C15_Witness ==
    /\ pc = "open_stream"
    /\ last_tool.executed
    /\ last_tool.tool = "shell"
    /\ last_tool.asked /\ last_tool.ran /\ last_tool.success
    /\ prompt = last_tool.result
    /\ state.current_assistant_content = << >>

\* C16: a human turn of the main loop always comes back to the input wait:
\* unless an exception left a tool's execute, run() is never ended by a turn.
C16_TurnReturnsControl ==
    (in_main_loop /\ pc = "crashed") => last_tool.raised # None

\* C17: after a KeyboardInterrupt the main loop caught, the parent link the
\* next turn will send is the assistant-message id of the last turn begun.
C17_InterruptKeepsParentLink ==
    (pc = "input" /\ exc = "caught: KeyboardInterrupt")
        => ParentLink = state.current_assistant_message_id

\* the line without its "data: " prefix, when it has one
Unprefixed(line) ==
    IF line # << >> /\ Head(line) = DataPrefix THEN Tail(line) ELSE line

\* the line is one JSON text after its optional prefix
Decodes(line) == Len(Unprefixed(line)) = 1 /\ Unprefixed(line)[1] \in JsonTexts

\* the decoded values of the lines that decode, in order
RECURSIVE DecodedFrames(_)
DecodedFrames(lines) ==
    IF lines = << >> THEN << >>
    ELSE (IF Decodes(Head(lines)) THEN << json_loads(Unprefixed(Head(lines))[1]) >>
          ELSE << >>)
         \o DecodedFrames(Tail(lines))

\* C18: what stream_completion has yielded is, in order, the decoded value
\* of exactly those lines read so far that are JSON after an optional
\* "data: " prefix; empty lines, the [DONE] sentinel and other text are
\* passed over, and the generator goes on reading after the sentinel: it
\* ends only when the body ends or the connection fails.
C18_YieldsDecodableFrames ==
    /\ yielded = DecodedFrames(SubSeq(frames, 1, frame_pos))
    /\ (pc = "frames_done" /\ exc = None) => frame_pos = Len(frames)

\* a body whose first line is the sentinel was read to its end, and the two
\* events after the sentinel were yielded
C18_Witness ==
    /\ pc = "frames_done"
    /\ Len(frames) = 3
    /\ frames[1] = << DataPrefix, DoneSentinel >>
    /\ frames[3] = << "{\"type\":\"chat:other\"}" >>
    /\ Len(yielded) = 2
    /\ yielded[2] = [kind |-> "dict", type |-> "chat:other"]

\* C19: the id a successful report call allocates is the number of
\* successful report calls so far (report.md did not exist before the first),
\* written with three digits: 001, 002, ... whatever the titles and findings.
C19_ReportIdsSequential ==
    (last_tool.called /\ last_tool.tool = "report" /\ last_tool.success)
        => get_next_id(last_tool.before) = Format03(Entries(last_tool.file))

\* C20: create_chat returns a non-empty id or raises; when it raises,
\* state.chat_id stays None, run() ends there (the request is not made again)
\* and no completion request was or will be started.
C20_CreateChatIdOrFailure ==
    /\ state.chat_id # None => (state.chat_id \in ChatIds /\ state.chat_id # "")
    /\ pc \in { "open_stream", "stream", "toolcheck", "input", "exited" }
          => state.chat_id # None
    /\ state.chat_id = None =>
          /\ pc \in { "start", "crashed" }
          /\ turns = 0
          /\ completion_payload = NoPayload
          /\ events = << >>
    /\ (pc = "crashed" /\ state.chat_id = None) => ~ENABLED Next

\* the server answered without an id: run() has ended, the new-chat payload
\* was sent once, the state has no chat id
C20_Witness ==
    /\ pc = "crashed"
    /\ exc = "create_chat: RuntimeError: create_chat response missing id"
    /\ state.chat_id = None
    /\ new_chat_payload # NoNewChat
    /\ turns = 0

----------------------------------------------------------------------------
(* Claims C21..C30 *)

C22_SignatureDeterministicPerWindow ==
    LET a == api_ret.value.before
        b == api_ret.value.last
    IN  (api_op = "_generate_signature" /\ a.called /\ b.called)
        => /\ (a.sorted_payload = b.sorted_payload /\ a.action = b.action
                  /\ a.timestamp_ms = b.timestamp_ms)
               => a.signature = b.signature
           /\ (a.sorted_payload = b.sorted_payload /\ a.action = b.action
                  /\ a.timestamp_ms \div WindowMs # b.timestamp_ms \div WindowMs)
               => a.signature # b.signature

C22_Witness ==
    /\ api_op = "_generate_signature"
    /\ api_ret.value.before.called
    /\ api_ret.value.before.sorted_payload = api_ret.value.last.sorted_payload
    /\ api_ret.value.before.action = api_ret.value.last.action
    /\ api_ret.value.before.timestamp_ms = WindowMs - 1
    /\ api_ret.value.last.timestamp_ms = WindowMs
    /\ api_ret.value.before.signature # api_ret.value.last.signature


AliasKeys ==
    {"system", "system_prompt", "assistant_system_prompt", "instructions",
     "{{SYSTEM_PROMPT}}"}

\* the items of a payload stored under a key that stands for the system prompt
AliasedFields(fields) == { f \in fields : f.key \in AliasKeys }

Keys(fields) == { f.key : f \in fields }

\* C23: in the completion payload and in the new-chat payload, a non-empty
\* system prompt is the value of every aliased system-prompt field (params,
\* extra, and the template variable of the completion payload), and with an
\* empty or absent system prompt none of these fields is in the payload.
C23_SystemPromptAliases ==
    /\ (api_op \in {"build_completion_payload", "build_new_chat_payload"}
           /\ api_ret.raised = None)
        => LET v == api_ret.value
               fields == v.params \cup v.extra
                           \cup (IF api_op = "build_completion_payload"
                                 THEN v.variables ELSE { })
           IN  IF FalsyStr(state.system_prompt)
               THEN AliasedFields(fields) = { }
               ELSE /\ \A f \in AliasedFields(fields) : f.value = state.system_prompt
                    /\ Keys(v.params) = {"system", "system_prompt", "assistant_system_prompt"}
                    /\ Keys(v.extra) = {"system", "system_prompt", "assistant_system_prompt",
                                        "instructions"}
                    /\ api_op = "build_completion_payload"
                         => "{{SYSTEM_PROMPT}}" \in Keys(v.variables)

C23_Witness ==
    /\ api_op = "build_new_chat_payload"
    /\ api_ret.raised = None
    /\ state.system_prompt = TOOL_SYSTEM_HINT
    /\ Cardinality(api_ret.value.extra) = 4
    /\ \A f \in api_ret.value.extra : f.value = TOOL_SYSTEM_HINT


\* C24: the steps of a turn come in the order begin_turn, payload, stream,
\* finish_turn, tool check.  Identifiers are allocated only where no stream is
\* open; the payload is built right after begin_turn, from the identifiers it
\* allocated; events are consumed only between the payload and the end of the
\* stream; the tool check is entered only from the end of the stream, with
\* finish_turn done; and execute_if_applicable is called only in the tool check,
\* on the content of the finished turn.
C24_TurnStepsInOrder ==
    [][ /\ (uuid_next' # uuid_next)
            => /\ pc \in {"start", "input", "toolcheck"}
               /\ pc' \in {"open_stream", "crashed"}
               /\ state'.current_assistant_content = << >>
        /\ (completion_payload' # completion_payload /\ pc' = "stream")
            => /\ pc = "open_stream"
               /\ events' = << >>
               /\ completion_payload'.id = uuid_next - 1
               /\ completion_payload'.current_user_message_id = uuid_next - 2
               /\ Content = << >>
        /\ (events' # events /\ events' # << >>)
            => /\ pc = "stream" /\ pc' = "stream"
               /\ uuid_next' = uuid_next
        /\ (pc # "toolcheck" /\ pc' = "toolcheck")
            => /\ pc = "stream"
               /\ state'.current_user_message_parent_id = state.current_assistant_message_id
               /\ state'.current_assistant_content = Content
        /\ (last_tool'.called /\ last_tool' # last_tool)
            => /\ pc = "toolcheck"
               /\ last_tool'.message = Content
               /\ ParentLink = state.current_assistant_message_id
               /\ state.current_assistant_message_id = uuid_next - 1 ]_vars

C24_Witness ==
    /\ pc = "open_stream"
    /\ last_tool.called
    /\ last_tool.executed
    /\ last_tool.message # << >>
    /\ ParentLink = uuid_next - 3
    /\ state.current_assistant_message_id = uuid_next - 1
    /\ Content = << >>


\* the identifiers the uuid factory has returned so far
Allocated == 1..(uuid_next - 1)

\* C25: begin_turn makes two identifiers current that differ from each other
\* and from every identifier allocated before the call, empties the
\* accumulated content, and leaves the parent link, the chat id and the
\* configuration (system prompt, show-thinking switch) as they were.
C25_BeginTurnFreshIds ==
    [][api_op' = "begin_turn" =>
         /\ state'.current_user_message_id # state'.current_assistant_message_id
         /\ { state'.current_user_message_id, state'.current_assistant_message_id }
               \cap (Allocated \cup { NoId }) = { }
         /\ { state'.current_user_message_id, state'.current_assistant_message_id }
               \subseteq Allocated'
         /\ api_ret'.value = << state'.current_user_message_id,
                                state'.current_assistant_message_id >>
         /\ state'.current_assistant_content = << >>
         /\ state'.current_user_message_parent_id = ParentLink
         /\ state'.chat_id = state.chat_id
         /\ state'.system_prompt = state.system_prompt
         /\ state'.runtime_show_thinking = state.runtime_show_thinking]_vars

C25_Witness ==
    /\ api_op = "begin_turn"
    /\ api_ret.value = << 5, 6 >>
    /\ ParentLink = 4
    /\ state.chat_id \in ChatIds
    /\ state.system_prompt = TOOL_SYSTEM_HINT
    /\ Content = << >>


\* C28: in every state of a registry the enabled names are registered names;
\* enable of a name that is not registered changes nothing.
C28_EnabledAreRegistered ==
    /\ \A name \in registry.enabled_tools : InTools(registry, name)
    /\ \A name \in RegistryNames :
         ~InTools(registry, name) => enable(registry, name) = registry

C28_Witness ==
    /\ api_op = "enable"
    /\ ~InTools(registry, api_ret.value)
    /\ registry.enabled_tools # { }
    /\ Len(registry.tools) = 2


\* C26: whatever register, enable, disable and execute_if_applicable calls came
\* before, a call of execute_if_applicable runs the execute of at most one
\* tool, and that tool is registered and enabled in the registry the call is
\* made on; the execute of a tool that is not enabled is never called.
C26_DispatchRunsOneEnabledTool ==
    [][api_op' = "execute_if_applicable" =>
         /\ registry' = registry
         /\ last_tool'.called
         /\ last_tool'.tool \in RegistryNames \cup { None }
         /\ last_tool'.tool # None
              => /\ InTools(registry, last_tool'.tool)
                 /\ last_tool'.tool \in registry.enabled_tools
         /\ last_tool'.tool = None
              => /\ ~last_tool'.executed
                 /\ ~last_tool'.ran
                 /\ last_tool'.result = << >>
                 /\ report_file' = report_file]_vars

C26_Witness ==
    /\ api_op = "execute_if_applicable"
    /\ last_tool.executed
    /\ last_tool.tool = "echo"
    /\ last_tool.message = << "<shell>", "ls", "</shell>", "<echo>", "x", "</echo>" >>
    /\ InTools(registry, "shell")
    /\ "shell" \notin registry.enabled_tools
    /\ registry.tools[1] = "shell"


\* C29: a tool registered with enabled=False is not enabled after the register
\* call, and until enable is called for its name find_tool_for_message does
\* not return it and execute_if_applicable does not run it, also when a tool
\* of the same name was registered before.
C29_RegisteredDisabledStaysInactive ==
    /\ registered_disabled \cap registry.enabled_tools = { }
    /\ api_op = "find_tool_for_message" => api_ret.value \notin registered_disabled
    /\ api_op = "execute_if_applicable" => last_tool.tool \notin registered_disabled


\* the enabled tools that can handle the message of the call and whose
\* extract_request gives a non-empty request
WellFormedTools ==
    { n \in registry.enabled_tools :
        /\ InTools(registry, n)
        /\ can_handle(n, last_tool.message)
        /\ execute_request(extract_request(n, last_tool.message)) }

\* C30 as stated: when some enabled tool can handle the text and extracts a
\* non-empty request from it, execute_if_applicable runs a tool, also when a
\* tool registered earlier matches the text with an empty tag.
C30_AnyWellFormedRequestTriggers ==
    (api_op = "execute_if_applicable" /\ WellFormedTools # { })
        => last_tool.tool # None

\* C30 amended: execute_if_applicable runs a tool exactly when the first
\* enabled tool, in registration order, that can handle the text extracts a
\* non-empty request, and that tool is the one it runs; when that first tool
\* extracts nothing or the empty string no tool is run, whatever later
\* registered tools would extract from the same text.
C30_FirstMatchDecides ==
    api_op = "execute_if_applicable" =>
        /\ last_tool.tool # None
             <=> (MatchedTool # None /\ MatchedTool \in WellFormedTools)
        /\ last_tool.tool # None => last_tool.tool = MatchedTool
        /\ (MatchedTool # None /\ MatchedTool \notin WellFormedTools)
             => /\ ~last_tool.executed
                /\ ~last_tool.ran
                /\ last_tool.result = << >>

\* echo, registered before shell, matches with an empty tag; shell has a
\* well-formed request in the same text and is not run
C30_Witness ==
    /\ api_op = "execute_if_applicable"
    /\ last_tool.message = << "<echo>", "</echo>", "<shell>", "ls", "</shell>" >>
    /\ registry.tools = << "echo", "shell" >>
    /\ MatchedTool = "echo"
    /\ WellFormedTools = { "shell" }
    /\ last_tool.tool = None
    /\ ~last_tool.executed


\* where the entries of report.md start: the separator line and the id
\* heading that report_entry puts first
EntryStarts(file) ==
    { k \in 1..(Len(file.content) - 1) :
        file.content[k] = "\n---\n" /\ file.content[k + 1] = "### ID: " }

\* the id in the heading of the entry that starts at k
EntryId(file, k) == DigitRun(file.content, k + 2)

HeaderPlaces(file) ==
    { k \in 1..Len(file.content) : file.content[k] = ReportHeader[1] }

----------------------------------------------------------------------------
(* Claims C31..C35 *)

\* C31: a response is given to execute_if_applicable at most once and runs at
\* most one tool.  A call is made only in the tool check, inside the budget,
\* on the content of the response just received, of which no tool has run yet
\* (fewer executions than responses in this human turn); the call runs at
\* most one tool and leaves the tool check, and the next tool check is reached
\* only through a begin_turn that empties the content and changes the
\* assistant id.  With the budget spent the tool check makes no call, and the
\* response it leaves behind is emptied by the begin_turn of the next prompt.
C31_ResponseDispatchedOnce ==
    [][ /\ (last_tool' # last_tool /\ last_tool'.called)
            => /\ pc = "toolcheck"
               /\ LoopContinues(i, max_iterations)
               /\ last_tool'.message = Content
               /\ executions < turns
               /\ executions' \in { executions, executions + 1 }
               /\ executions' = executions + 1 <=> last_tool'.tool # None
               /\ pc' \in { "open_stream", "input", "crashed" }
               /\ pc' = "open_stream"
                    => /\ Content' = << >>
                       /\ state'.current_assistant_message_id
                             # state.current_assistant_message_id
        /\ (pc = "toolcheck" /\ ~LoopContinues(i, max_iterations))
            => /\ last_tool' = last_tool
               /\ executions' = executions
               /\ report_file' = report_file
               /\ pc' \in { "input", "crashed" }
        /\ (pc = "input" /\ pc' = "open_stream")
            => /\ Content' = << >>
               /\ state'.current_assistant_message_id
                     # state.current_assistant_message_id
        /\ (pc' = "toolcheck" /\ pc # "toolcheck") => ~last_tool'.called ]_vars

\* the budget was spent and the response received last, which holds a shell
\* tag, was left without a call
C31_Witness ==
    /\ pc = "input"
    /\ exc = None
    /\ max_iterations >= 1
    /\ executions = max_iterations
    /\ turns = max_iterations + 1
    /\ ~last_tool.called
    /\ applicable_tool(registry, Content) = "shell"


\* C32: once the loop body has processed an event with a terminal signal, no
\* step changes the accumulated content or the parent link of the turn before
\* the next begin_turn, whatever events the stream still gives.
C32_FrozenAfterTerminal ==
    [][ (/\ pc = "stream"
         /\ \E k \in 1..Len(events) : TerminalProcessed(events[k])
         /\ uuid_next' = uuid_next)
        => /\ state'.current_assistant_content = Content
           /\ state'.current_user_message_parent_id = ParentLink ]_vars


\* C33: no event the generator yields makes the turn fail: the run never ends
\* with an exception of the loop body of _stream_current_turn, whatever JSON
\* value the frame decoded to and whatever is under "data", and the turn
\* reaches its finish_turn.
C33_NoDecodedFrameFailsTurn ==
    ~(pc = "crashed" /\ exc = AttributeError)


\* C34: for every write_file tag with path p and body c, extract_request and
\* then execute write exactly c to exactly p, also when p or c contains "|".
C34_WriteRoundTrip ==
    \A k \in 1..Len(api_ret.value) :
        LET w == api_ret.value[k]
        IN /\ w.success
           /\ w.written.path = w.path
           /\ w.written.content = w.body


\* the rendered text has the tokens of part, in a row
HasTokens(text, part) ==
    \E k \in 1..Len(text) :
        /\ k + Len(part) - 1 <= Len(text)
        /\ SubSeq(text, k, k + Len(part) - 1) = part

\* C35: a shell request the user refuses at the confirmation prompt runs no
\* command, gives the failed result with the error "user rejected command",
\* is returned as executed, becomes the prompt of the next turn and takes one
\* iteration of the budget; a command that ended with an exit code is
\* rendered as a success exactly when the code is 0, and the code is in the
\* metadata of the result.
C35_ShellRejectionAndExitCode ==
    [][ (/\ pc = "toolcheck"
         /\ last_tool'.called
         /\ last_tool'.tool = "shell"
         /\ last_tool'.raised = None) =>
          /\ (last_tool'.asked /\ ~Accepts(last_tool'.env.confirm)) =>
                /\ ~last_tool'.ran
                /\ ~last_tool'.success
                /\ last_tool'.executed
                /\ last_tool'.result =
                     ToolResult_format("shell", last_tool'.request, FALSE, << >>,
                                       << "user rejected command" >>)
                /\ ~HasTokens(last_tool'.result, << "\n", "exit_code", ": " >>)
                /\ prompt' = last_tool'.result
                /\ i' = i + 1
                /\ executions' = executions + 1
                /\ pc' = "open_stream"
          /\ (last_tool'.env.run \in { "exit0", "exit1" }) =>
                /\ last_tool'.asked => Accepts(last_tool'.env.confirm)
                /\ last_tool'.ran
                /\ last_tool'.executed
                /\ last_tool'.success <=> (last_tool'.env.run = "exit0")
                /\ HasTokens(last_tool'.result,
                             << "\n", "success: ",
                                IF last_tool'.env.run = "exit0" THEN "yes" ELSE "no" >>)
                /\ HasTokens(last_tool'.result,
                             << "\n", "exit_code", ": ",
                                IF last_tool'.env.run = "exit0" THEN "0" ELSE "1" >>)
                /\ prompt' = last_tool'.result ]_vars

\* the human refused a shell command: nothing ran, and the failed result is
\* the prompt of the turn that is about to stream
C35_Witness ==
    /\ pc = "open_stream"
    /\ last_tool.executed
    /\ last_tool.tool = "shell"
    /\ last_tool.asked /\ last_tool.env.confirm = "n"
    /\ ~last_tool.ran /\ ~last_tool.success
    /\ prompt = last_tool.result
    /\ i >= 1

====
